---- MODULE Spec2Model ----
(***************************************************************************)
(* The 835 Remittance projection of databricksx12 (hls/remittance.py).    *)
(* A Remittance is built from six segment ranges; build() runs the six    *)
(* populate_* methods in a fixed order and to_json() assembles the        *)
(* decoded record.  A Python dict is a function from key strings to       *)
(* values, a Python list a sequence.  Positions in the operators below    *)
(* are Python's 0-based positions; the conversion to the 1-based          *)
(* sequences of TLA+ is made inside the operators that index.             *)
(***************************************************************************)
EXTENDS Integers, Sequences, FiniteSets, TLC

VARIABLES trx_header_loop, payer_loop, payee_loop, clm_loop,
          trx_summary_loop, header_number_loop,
          trx_header_info, payer_info, payee_info, clm_info, plb_info,
          header_info, pc, json

loops == <<trx_header_loop, payer_loop, payee_loop, clm_loop,
           trx_summary_loop, header_number_loop>>
infos == <<trx_header_info, payer_info, payee_info, clm_info, plb_info,
           header_info>>

\* A Transaction (transaction.py): the argument of its constructor, the
\* attributes of the object, the position of its caller, the state taken
\* from the object for pickling and the object restored from a state.
VARIABLES tx_segments, transaction, tx_pc, tx_state, restored

\* The life of a Remittance after its first to_json: the number of build()
\* runs started, the number of further to_json calls made, the value the
\* first to_json call returned, the mapping its caller holds now and what
\* the caller did to it.
VARIABLES builds, calls, first_json, held, modified

\* A second Remittance, constructed by another worker.
VARIABLES other

\* The framer: the segments of an interchange, the position it has reached
\* and what it has surfaced for every unit so far.
VARIABLES interchange, cursor, units

txn == <<tx_segments, transaction, tx_pc, tx_state, restored>>
life == <<builds, calls, first_json, held, modified>>
framing == <<interchange, cursor, units>>
aside == <<txn, life, other, framing>>
vars == <<loops, infos, pc, json, aside>>

----------------------------------------------------------------------------
(* Python values that are not element text.                                *)

\* Python's None.  No element text of the model equals it.
None == "<None>"
\* An attribute that has not been assigned yet.
Unset == <<>>

----------------------------------------------------------------------------
(* Segment: the tokens of one raw segment after the split on the element   *)
(* separator; token 0 is the identifier.  Each token is the sequence of    *)
(* its sub-elements after the split on the composite separator.            *)

COMPOSITE_SEP == ":"

RECURSIVE JoinFrom(_, _)
JoinFrom(tok, k) ==
    IF k > Len(tok) THEN ""
    ELSE IF k = Len(tok) THEN tok[k]
    ELSE tok[k] \o COMPOSITE_SEP \o JoinFrom(tok, k + 1)

\* The text of a whole token: its sub-elements joined by the separator.
TokenText(tok) == JoinFrom(tok, 1)

\* Segment.empty(): the stand-in _first returns when nothing matches.
EmptySegment == << <<"">> >>

\* Segment.segment_len(): the number of tokens, the identifier included.
segment_len(seg) == Len(seg)

\* Segment.element(i): token i, "" when i is past the end.
element(seg, i) ==
    IF i >= 0 /\ i < Len(seg) THEN TokenText(seg[i + 1]) ELSE ""

\* Segment.element(i, j): sub-element j of token i, "" when either is past
\* the end.
element_sub(seg, i, j) ==
    IF i >= 0 /\ i < Len(seg) /\ j >= 0 /\ j < Len(seg[i + 1])
    THEN seg[i + 1][j + 1]
    ELSE ""

\* Segment.segment_name()
segment_name(seg) == element(seg, 0)

----------------------------------------------------------------------------
(* Python sequence operations used by the projection.                      *)

Min2(a, b) == IF a <= b THEN a ELSE b
Max2(a, b) == IF a >= b THEN a ELSE b

\* A slice bound as Python clamps it: a negative bound counts from the end.
SliceBound(n, b) == IF b < 0 THEN Max2(n + b, 0) ELSE Min2(b, n)

\* s[a:b]
PySlice(s, a, b) ==
    LET lo == SliceBound(Len(s), a)
        hi == SliceBound(Len(s), b)
    IN  IF hi <= lo THEN <<>> ELSE SubSeq(s, lo + 1, hi)

\* The positions (0-based, ascending) of the segments of data named name.
Positions(data, name) ==
    {i \in 0..(Len(data) - 1) : segment_name(data[i + 1]) = name}

SetMin(S) == CHOOSE x \in S : \A y \in S : x <= y

\* The elements of a set of integers in ascending order.
RECURSIVE Ascending(_)
Ascending(S) ==
    IF S = {} THEN <<>> ELSE <<SetMin(S)>> \o Ascending(S \ {SetMin(S)})

\* [f(x) for x in s]
Map(f(_), s) == [k \in 1..Len(s) |-> f(s[k])]

\* EDI.segments_by_name(name, data=...): the segments named name, in order.
segments_by_name(name, data) ==
    SelectSeq(data, LAMBDA s : segment_name(s) = name)

\* EDI.segments_by_name_index(segment_name, data): (position, segment) pairs.
segments_by_name_index(name, data) ==
    LET ps == Ascending(Positions(data, name))
    IN  [k \in 1..Len(ps) |-> <<ps[k], data[ps[k] + 1]>>]

\* EDI.index_of_segment(segments, name, from): the first position >= from of
\* a segment named name, the length of the sequence when there is none.
index_of_segment(segments, name, from) ==
    LET ps == {i \in Positions(segments, name) : i >= from}
    IN  IF ps = {} THEN Len(segments) ELSE SetMin(ps)

\* MedicalClaim._first(segments, name, from): the first segment named name at
\* a position >= from, the empty segment when there is none.
_first(segments, name, from) ==
    LET ps == {i \in Positions(segments, name) : i >= from}
    IN  IF ps = {} THEN EmptySegment ELSE segments[SetMin(ps) + 1]

----------------------------------------------------------------------------
(* Field tables: the keys of each dict literal of remittance.py with the   *)
(* segment name and the element each value is read from, in source order.  *)

LX_FIELDS ==
    << <<"assigned_num", "LX", 1>> >>

TS3_FIELDS ==
    << <<"provider_identifier", "TS3", 1>>,
       <<"facility_code_value", "TS3", 2>>,
       <<"fiscal_period_date", "TS3", 3>>,
       <<"total_claim_count", "TS3", 4>>,
       <<"total_claim_change_amount", "TS3", 5>>,
       <<"total_covered_charge_amount", "TS3", 6>>,
       <<"total_noncovered_charge_amount", "TS3", 7>>,
       <<"total_denied_charge_amount", "TS3", 8>>,
       <<"total_provider_amount", "TS3", 9>>,
       <<"total_interest_amount", "TS3", 10>>,
       <<"total_contractual_adjustment_amount", "TS3", 11>>,
       <<"total_gramm_rudman_reduction_amount", "TS3", 12>>,
       <<"total_msp_payer_amount", "TS3", 13>>,
       <<"total_blood_deductible_amount", "TS3", 14>>,
       <<"total_non_lab_charge_amount", "TS3", 15>>,
       <<"total_coinsurance_amount", "TS3", 16>>,
       <<"total_hcpcs_reported_charge_amount", "TS3", 17>>,
       <<"total_hcpcs_payable_amount", "TS3", 18>>,
       <<"total_deductible_amount", "TS3", 19>>,
       <<"total_professional_component_amount", "TS3", 20>>,
       <<"total_msp_patient_liability_met_amount", "TS3", 21>>,
       <<"total_patient_reimbursement_amount", "TS3", 22>>,
       <<"total_pip_claim_count", "TS3", 23>>,
       <<"total_pip_adjustment_amount", "TS3", 24>> >>

TS2_FIELDS ==
    << <<"total_drg_amount", "TS2", 1>>,
       <<"total_federal_specific_amount", "TS2", 2>>,
       <<"total_hospital_specific_amount", "TS2", 3>>,
       <<"total_disproportionate_amount", "TS2", 4>>,
       <<"total_capital_amount", "TS2", 5>>,
       <<"total_indirect_medical_education_amount", "TS2", 6>>,
       <<"total_outlier_day_count", "TS2", 7>>,
       <<"total_day_outlier_amount", "TS2", 8>>,
       <<"total_cost_outlier_amount", "TS2", 9>>,
       <<"average_drg_length_of_stay", "TS2", 10>>,
       <<"total_discharge_count", "TS2", 11>>,
       <<"total_cost_report_day_count", "TS2", 12>>,
       <<"total_covered_day_count", "TS2", 13>>,
       <<"total_noncovered_day_count", "TS2", 14>>,
       <<"total_msp_pass_through_amount", "TS2", 15>>,
       <<"average_drg_weight", "TS2", 16>>,
       <<"total_pps_capital_fsp_drg_amount", "TS2", 17>>,
       <<"total_psp_capital_hsp_drg_amount", "TS2", 18>>,
       <<"total_pps_dsh_drg_amount", "TS2", 19>> >>

PAYER_FIELDS ==
    << <<"entity_identifier_code", "N1", 1>>,
       <<"payer_name", "N1", 2>>,
       <<"id_code_qualifier", "N1", 3>>,
       <<"payer_identifier", "N1", 4>>,
       <<"entity_relationship_code", "N1", 5>>,
       <<"payer_address_line_1", "N3", 1>>,
       <<"payer_address_line_2", "N3", 2>>,
       <<"payer_city_name", "N4", 1>>,
       <<"payer_state_code", "N4", 2>>,
       <<"payer_postal_zone_or_zip_code", "N4", 3>>,
       <<"country_code", "N4", 4>>,
       <<"location_qualifier", "N4", 5>>,
       <<"country_subdivision_code", "N4", 7>> >>

CONTACT_FIELDS ==
    << <<"contact_function_cd", 1>>,
       <<"contact_name", 2>>,
       <<"communication_number_qualifier1", 3>>,
       <<"contact_communication1", 4>>,
       <<"communication_number_qualifier2", 5>>,
       <<"contact_communication2", 6>>,
       <<"communication_number_qualifier3", 7>>,
       <<"contact_communication3", 8>>,
       <<"contact_inquiry_reference", 9>> >>

ADDITIONAL_ID_FIELDS ==
    << <<"id_qualifier_code", 1>>,
       <<"id", 2>>,
       <<"description", 3>> >>

PAYEE_FIELDS ==
    << <<"entity_identifier_code", "N1", 1>>,
       <<"payee_name", "N1", 2>>,
       <<"id_code_qualifier", "N1", 3>>,
       <<"payee_identifier", "N1", 4>>,
       <<"entity_relationship_code", "N1", 5>>,
       <<"payee_address_line_1", "N3", 1>>,
       <<"payee_address_line_2", "N3", 2>>,
       <<"payee_city_name", "N4", 1>>,
       <<"payee_state_code", "N4", 2>>,
       <<"payee_postal_zone_or_zip_code", "N4", 3>>,
       <<"country_code", "N4", 4>>,
       <<"location_qualifier", "N4", 5>>,
       <<"country_subdivision_code", "N4", 7>>,
       <<"delivery_report_transmission_code", "RDM", 1>>,
       <<"delivery_name", "RDM", 2>>,
       <<"delivery_communication_number", "RDM", 3>>,
       <<"delivery_reference_identifier", "RDM", 4>> >>

PAYEE_ADDITIONAL_ID_FIELDS ==
    << <<"id_qualifier_code", 1>>,
       <<"id", 2>>,
       <<"description", 3>> >>

TRX_DTM_FIELDS ==
    << <<"date_code", "DTM", 1>>,
       <<"date", "DTM", 2>>,
       <<"time", "DTM", 3>> >>

BPR_FIELDS ==
    << <<"transaction_handling_code", "BPR", 1>>,
       <<"total_actual_provider_payment_amt", "BPR", 2>>,
       <<"creditor_debit_flag_code", "BPR", 3>>,
       <<"payment_method_code", "BPR", 4>>,
       <<"payment_format_code", "BPR", 5>>,
       <<"sender_dfiid_number_qualifier", "BPR", 6>>,
       <<"sender_dfi_identifier", "BPR", 7>>,
       <<"sender_account_number_qualifier", "BPR", 8>>,
       <<"sender_bank_acct_number", "BPR", 9>>,
       <<"payer_identifier", "BPR", 10>>,
       <<"payer_originating_co_supplemental_code", "BPR", 11>>,
       <<"receiver_dfiid_number_qualifier", "BPR", 12>>,
       <<"receiver_or_provider_bank_id_number", "BPR", 13>>,
       <<"receiver_acct_number_qualifier", "BPR", 14>>,
       <<"receiver_or_provider_account_number", "BPR", 15>>,
       <<"check_issue_or_eft_effective_date", "BPR", 16>>,
       <<"business_function_code", "BPR", 17>> >>

TRN_FIELDS ==
    << <<"trace_type_code", "TRN", 1>>,
       <<"check_or_eft_trace_number", "TRN", 2>>,
       <<"trace_payer_identifier", "TRN", 3>>,
       <<"trace_payer_originating_co_supplemental_code", "TRN", 4>> >>

CLP_FIELDS ==
    << <<"patient_control_number", "CLP", 1>>,
       <<"claim_status_code", "CLP", 2>>,
       <<"total_claim_charge_amount", "CLP", 3>>,
       <<"claim_payment_amount", "CLP", 4>>,
       <<"patient_responsibility_amount", "CLP", 5>>,
       <<"claim_filing_indicator_code", "CLP", 6>>,
       <<"payer_claim_control_number", "CLP", 7>>,
       <<"facility_code_value", "CLP", 8>>,
       <<"claim_frequency_code", "CLP", 9>>,
       <<"patient_status_code", "CLP", 10>>,
       <<"drg_code", "CLP", 11>>,
       <<"drg_weight", "CLP", 12>>,
       <<"discharge_fraction", "CLP", 13>>,
       <<"yes_no_condition_or_response_code", "CLP", 14>> >>

FIRST_NM1_FIELDS ==
    << <<"entity_identifier_code", "NM1", 1>>,
       <<"entity_type_qualifier", "NM1", 2>>,
       <<"last_name_or_organization", "NM1", 3>>,
       <<"first_name", "NM1", 4>>,
       <<"middle_name", "NM1", 5>>,
       <<"name_prefix", "NM1", 6>>,
       <<"name_suffix", "NM1", 7>>,
       <<"id_code_qualifier", "NM1", 8>>,
       <<"identifier", "NM1", 9>>,
       <<"entity_relationship_code", "NM1", 10>> >>

CLAIM_CONTACT_FIELDS ==
    << <<"contact_function_cd", 1>>,
       <<"contact_name", 2>>,
       <<"communication_number_qualifier1", 3>>,
       <<"contact_communication1", 4>>,
       <<"communication_number_qualifier2", 5>>,
       <<"contact_communication2", 6>>,
       <<"communication_number_qualifier3", 7>>,
       <<"contact_communication3", 8>>,
       <<"contact_inquiry_reference", 9>> >>

MIA_FIELDS ==
    << <<"covered_days_or_visits_count", "MIA", 1>>,
       <<"pps_operation_outlier_amount", "MIA", 2>>,
       <<"lifetime_psychiatric_days_count", "MIA", 3>>,
       <<"claim_drg_amount", "MIA", 4>>,
       <<"claim_payment_remark_code", "MIA", 5>>,
       <<"claim_dsh_amount", "MIA", 6>>,
       <<"claim_msp_pass_thru_amount", "MIA", 7>>,
       <<"claim_pps_capital_amount", "MIA", 8>>,
       <<"pps_capital_fsp_drg_amount", "MIA", 9>>,
       <<"pps_capital_hsp_drg_amount", "MIA", 10>>,
       <<"pps_capital_dsh_drg_amount", "MIA", 11>>,
       <<"old_capital_amount", "MIA", 12>>,
       <<"pps_capital_ime_amount", "MIA", 13>>,
       <<"pps_oper_hsp_spec_drg_amount", "MIA", 14>>,
       <<"cost_report_day_count", "MIA", 15>>,
       <<"pps_oper_fsp_spec_drg_amount", "MIA", 16>>,
       <<"claim_pps_outlier_amount", "MIA", 17>>,
       <<"claim_indirect_teaching", "MIA", 18>>,
       <<"non_pay_prof_comp_amount", "MIA", 19>>,
       <<"inpatient_claim_payment_remark_code_1", "MIA", 20>>,
       <<"inpatient_claim_payment_remark_code_2", "MIA", 21>>,
       <<"inpatient_claim_payment_remark_code_3", "MIA", 22>>,
       <<"inpatient_claim_payment_remark_code_4", "MIA", 23>>,
       <<"pps_capital_exception_amount", "MIA", 24>> >>

MOA_FIELDS ==
    << <<"reimbursement_rate", "MOA", 1>>,
       <<"claim_hcpcs_payable_amount", "MOA", 2>>,
       <<"outpatient_claim_payment_remark_code_1", "MOA", 3>>,
       <<"outpatient_claim_payment_remark_code_2", "MOA", 4>>,
       <<"outpatient_claim_payment_remark_code_3", "MOA", 5>>,
       <<"outpatient_claim_payment_remark_code_4", "MOA", 6>>,
       <<"outpatient_claim_payment_remark_code_5", "MOA", 7>>,
       <<"claim_esrd_payment_amount", "MOA", 8>>,
       <<"non_payable_professional_comp_amount", "MOA", 9>> >>

CLAIM_REF_FIELDS ==
    << <<"id_qualifier_code", 1>>,
       <<"id", 2>>,
       <<"description", 3>> >>

CLAIM_AMT_FIELDS ==
    << <<"amount_qualifier_code", 1>>,
       <<"amt", 2>>,
       <<"credit_debit_flag_code", 3>> >>

CLAIM_QTY_FIELDS ==
    << <<"quantity_qualifier_code", 1>>,
       <<"qty", 2>>,
       <<"composite_unit_of_measure", 3>> >>

CLAIM_DATE_FIELDS ==
    << <<"date_code", 1>>,
       <<"date", 2>>,
       <<"time", 3>> >>

NAME_FIELDS ==
    << <<"entity_identifier_code", 1>>,
       <<"entity_type_qualifier", 2>>,
       <<"last_name_or_organization", 3>>,
       <<"first_name", 4>>,
       <<"middle_name", 5>>,
       <<"name_prefix", 6>>,
       <<"name_suffix", 7>>,
       <<"id_code_qualifier", 8>>,
       <<"identifier", 9>>,
       <<"entity_relationship_code", 10>> >>

LINE_DETAIL_FIELDS ==
    << <<"prcdr_cd", 1>>,
       <<"chrg_amt", 2>>,
       <<"paid_amt", 3>>,
       <<"rev_cd", 4>>,
       <<"units", 5>>,
       <<"original_prcdr_cd", 6>>,
       <<"original_units_of_service_count", 7>> >>

LINE_DATE_FIELDS ==
    << <<"date_code", "DTM", 1>>,
       <<"date", "DTM", 2>>,
       <<"time", "DTM", 3>> >>

LINE_AMT_FIELDS ==
    << <<"amt_qualifier_cd", 1>>,
       <<"amt", 2>>,
       <<"credit_debit_flag_code", 3>> >>

LINE_QTY_FIELDS ==
    << <<"quantity_qualifier", 1>>,
       <<"qty", 2>>,
       <<"composite_unit_of_measure", 3>> >>

LINE_REMARK_FIELDS ==
    << <<"qualifier_cd", 1>>,
       <<"remark_cd", 2>> >>

LINE_REF_FIELDS ==
    << <<"id_code_qualifier", 1>>,
       <<"id", 2>>,
       <<"description", 3>> >>

CAS_FIELDS ==
    << <<"adjustment_grp_cd", 1>>,
       <<"adjustment_reason_cd_1", 2>>,
       <<"adjustment_amount_1", 3>>,
       <<"adjustment_quantity_1", 4>>,
       <<"adjustment_reason_cd_2", 5>>,
       <<"adjustment_amount_2", 6>>,
       <<"adjustment_quantity_2", 7>>,
       <<"adjustment_reason_cd_3", 8>>,
       <<"adjustment_amount_3", 9>>,
       <<"adjustment_quantity_3", 10>>,
       <<"adjustment_reason_cd_4", 11>>,
       <<"adjustment_amount_4", 12>>,
       <<"adjustment_quantity_4", 13>>,
       <<"adjustment_reason_cd_5", 14>>,
       <<"adjustment_amount_5", 15>>,
       <<"adjustment_quantity_5", 16>>,
       <<"adjustment_reason_cd_6", 17>>,
       <<"adjustment_amount_6", 18>>,
       <<"adjustment_quantity_6", 19>> >>

PLB_ID_FIELDS ==
    << <<"provider_identifier", 1>>,
       <<"fiscal_period_date", 2>> >>


\* key, token, sub-element (-1: the whole token), and the length the segment
\* must exceed for the field to be read.
PLB_GROUP_FIELDS ==
    << <<"provider_adjustment_reason_cd_1", 3, 0, 3>>,
       <<"provider_adjustment_id_1", 3, 1, 3>>,
       <<"provider_adjustment_amt_1", 4, -1, 4>>,
       <<"provider_adjustment_reason_cd_2", 5, 0, 5>>,
       <<"provider_adjustment_id_2", 5, 1, 5>>,
       <<"provider_adjustment_amt_2", 6, -1, 6>>,
       <<"provider_adjustment_reason_cd_3", 7, 0, 7>>,
       <<"provider_adjustment_id_3", 7, 1, 7>>,
       <<"provider_adjustment_amt_3", 8, -1, 8>>,
       <<"provider_adjustment_reason_cd_4", 9, 0, 9>>,
       <<"provider_adjustment_id_4", 9, 1, 9>>,
       <<"provider_adjustment_amt_4", 10, -1, 10>>,
       <<"provider_adjustment_reason_cd_5", 11, 0, 11>>,
       <<"provider_adjustment_id_5", 11, 1, 11>>,
       <<"provider_adjustment_amt_5", 12, -1, 12>>,
       <<"provider_adjustment_reason_cd_6", 13, 0, 13>>,
       <<"provider_adjustment_id_6", 13, 1, 13>>,
       <<"provider_adjustment_amt_6", 14, -1, 14>> >>

----------------------------------------------------------------------------
(* Building a dict from a table.                                           *)

Keys(tbl) == {tbl[r][1] : r \in DOMAIN tbl}
Row(tbl, k) == tbl[CHOOSE r \in DOMAIN tbl : tbl[r][1] = k]

\* {key: self._first(loop, NAME, from).element(n), ...}
ProjectFirst(loop, tbl, from) ==
    [k \in Keys(tbl) |->
        LET row == Row(tbl, k)
        IN  element(_first(loop, row[2], from), row[3])]

\* {key: seg.element(n), ...}
ProjectSeg(seg, tbl) ==
    [k \in Keys(tbl) |-> element(seg, Row(tbl, k)[2])]

\* functools.reduce(lambda x, y: x + y, lists, [])
RECURSIVE Concat(_)
Concat(lists) ==
    IF lists = <<>> THEN <<>> ELSE Head(lists) \o Concat(Tail(lists))

\* filter(lambda x: x >= 0, xs)
NonNegative(xs) == SelectSeq(xs, LAMBDA x : x >= 0)

\* min(xs) of a non-empty list; Python raises ValueError on an empty one.
PyMin(xs) == SetMin({xs[k] : k \in DOMAIN xs})

----------------------------------------------------------------------------
(* The projection, method by method.                                       *)

populate_header_loop(loop) ==
    ProjectFirst(loop, LX_FIELDS, 0)
    @@ ("ts3" :> ProjectFirst(loop, TS3_FIELDS, 0))
    @@ ("ts2" :> ProjectFirst(loop, TS2_FIELDS, 0))

\* A PLB group field defaulting to "" as the CAS fields do.
plb_group_field_blank(p, row) ==
    IF segment_len(p) > row[4]
    THEN IF row[3] = -1 THEN element(p, row[2])
         ELSE element_sub(p, row[2], row[3])
    ELSE ""

\* One field of a PLB group: read when the segment is longer than the
\* threshold of its row, None otherwise.
plb_group_field(p, row) ==
    IF segment_len(p) > row[4]
    THEN IF row[3] = -1 THEN element(p, row[2])
         ELSE element_sub(p, row[2], row[3])
    ELSE None

plb_record(p) ==
    ProjectSeg(p, PLB_ID_FIELDS)
    @@ [k \in Keys(PLB_GROUP_FIELDS) |->
           plb_group_field(p, Row(PLB_GROUP_FIELDS, k))]

\* populate_plb_loop reading the first PLB only.
populate_plb_loop_first(loop) ==
    IF segments_by_name("PLB", loop) = <<>> THEN <<>>
    ELSE << plb_record(segments_by_name("PLB", loop)[1]) >>

populate_plb_loop(loop) ==
    Concat(<< Map(plb_record, segments_by_name("PLB", loop)), <<>> >>)

payer_contact_info(loop) ==
    Map(LAMBDA c : ProjectSeg(c, CONTACT_FIELDS),
        segments_by_name("PER", loop))

payer_additional_identification(loop) ==
    Map(LAMBDA c : ProjectSeg(c, ADDITIONAL_ID_FIELDS),
        segments_by_name("REF", loop))

populate_payer_loop(loop) ==
    ProjectFirst(loop, PAYER_FIELDS, 0)
    @@ ("payer_contact_info" :> payer_contact_info(loop))
    @@ ("payer_additional_identification" :>
            payer_additional_identification(loop))

\* The payee identifications read from the PER segments.
payee_additional_identification_per(loop) ==
    Map(LAMBDA c : ProjectSeg(c, PAYEE_ADDITIONAL_ID_FIELDS),
        segments_by_name("PER", loop))

payee_additional_identification(loop) ==
    Map(LAMBDA c : ProjectSeg(c, PAYEE_ADDITIONAL_ID_FIELDS),
        segments_by_name("REF", loop))

populate_payee_loop(loop) ==
    ProjectFirst(loop, PAYEE_FIELDS, 0)
    @@ ("payee_additional_identification" :>
            payee_additional_identification(loop))

\* populate_trx_loop leaving the fields of an absent DTM out of the record.
populate_trx_loop_skip_absent(loop) ==
    [dtm |-> IF Positions(loop, "DTM") = {} THEN <<>>
             ELSE ProjectFirst(loop, TRX_DTM_FIELDS, 0),
     bpr |-> ProjectFirst(loop, BPR_FIELDS, 0),
     trn |-> ProjectFirst(loop, TRN_FIELDS, 0)]

populate_trx_loop(loop) ==
    [dtm |-> ProjectFirst(loop, TRX_DTM_FIELDS, 0),
     bpr |-> ProjectFirst(loop, BPR_FIELDS, 0),
     trn |-> ProjectFirst(loop, TRN_FIELDS, 0)]

\* Adjustment groups emitting only the fields the segment is long enough
\* to hold.
populate_adjustment_groups_present(cas) ==
    << [k \in {f \in Keys(CAS_FIELDS) :
                 Row(CAS_FIELDS, f)[2] < segment_len(cas)} |->
          element(cas, Row(CAS_FIELDS, k)[2])] >>

populate_adjustment_groups(cas) == << ProjectSeg(cas, CAS_FIELDS) >>

_populate_names(loop) ==
    Map(LAMBDA x : ProjectSeg(x, NAME_FIELDS), segments_by_name("NM1", loop))

\* The position, within clm_loop[1:], of the first CLP found there, or
\* len(clm_loop) when clm_loop[1:] holds no CLP.
end_clp_index(loop) ==
    ( Ascending(Positions(PySlice(loop, 1, Len(loop)), "CLP"))
      \o << Len(loop) >> )[1]

\* The pre-SVC range cut at min(index of SVC, len - 1), as the claim-level
\* CAS range is.
pre_svc_range_short(loop) ==
    PySlice(loop, 0, Min2(index_of_segment(loop, "SVC", 0), Len(loop) - 1))

\* clm_loop[: self.index_of_segment(self.clm_loop, "SVC")]
pre_svc_range(loop) == PySlice(loop, 0, index_of_segment(loop, "SVC", 0))

\* claim_names restricted to the segments before the first SVC.
claim_names_pre_svc(loop) == _populate_names(pre_svc_range(loop))

claim_names(loop) == _populate_names(PySlice(loop, 0, end_clp_index(loop)))

claim_contacts(loop) ==
    Map(LAMBDA c : ProjectSeg(c, CLAIM_CONTACT_FIELDS),
        segments_by_name("PER", pre_svc_range(loop)))

claim_related_identifications(loop) ==
    Map(LAMBDA x : ProjectSeg(x, CLAIM_REF_FIELDS),
        segments_by_name("REF", pre_svc_range(loop)))

claim_supplemental_amount(loop) ==
    Map(LAMBDA x : ProjectSeg(x, CLAIM_AMT_FIELDS),
        segments_by_name("AMT", pre_svc_range(loop)))

claim_supplemental_quantity(loop) ==
    Map(LAMBDA x : ProjectSeg(x, CLAIM_QTY_FIELDS),
        segments_by_name("QTY", pre_svc_range(loop)))

\* The candidates under the filter x > 0.
claim_adjustments_ends_positive(loop) ==
    SelectSeq(<< index_of_segment(loop, "SVC", 0), Len(loop) - 1 >>,
              LAMBDA x : x > 0)

\* The candidates for the end of the claim-level CAS range that survive the
\* filter x >= 0.
claim_adjustments_ends(loop) ==
    NonNegative(<< index_of_segment(loop, "SVC", 0), Len(loop) - 1 >>)

claim_adjustments(loop) ==
    Concat(Map(populate_adjustment_groups,
               segments_by_name("CAS",
                   PySlice(loop, 1, PyMin(claim_adjustments_ends(loop))))))

\* Every service line is given the end of the claim range as its end.
svc_end_idx_range_end(loop, i) == Len(loop) - 1

\* The third argument populate_claim_loop passes for the SVC at position i.
svc_end_idx(loop, i) ==
    Min2(index_of_segment(loop, "SVC", i + 1), Len(loop) - 1)

claim_line_dates(loop, idx) == ProjectFirst(loop, LINE_DATE_FIELDS, idx)

claim_line_supplemental_amount(loop, idx, end) ==
    Map(LAMBDA a : ProjectSeg(a, LINE_AMT_FIELDS),
        segments_by_name("AMT", PySlice(loop, idx, end)))

claim_line_supplemental_quantity(loop, idx, end) ==
    Map(LAMBDA a : ProjectSeg(a, LINE_QTY_FIELDS),
        segments_by_name("AMT", PySlice(loop, idx, end)))

claim_line_remarks(loop, idx, end) ==
    Map(LAMBDA x : ProjectSeg(x, LINE_REMARK_FIELDS),
        segments_by_name("LQ", PySlice(loop, idx, end)))

claim_line_adjustments(loop, idx, end) ==
    Concat(Map(populate_adjustment_groups,
               segments_by_name("CAS", PySlice(loop, idx, end))))

claim_line_related_identifications(loop, idx, end) ==
    Map(LAMBDA x : ProjectSeg(x, LINE_REF_FIELDS),
        segments_by_name("REF", PySlice(loop, idx, end)))

populate_claim_line(loop, svc, idx, end) ==
    [claim_line_details |-> ProjectSeg(svc, LINE_DETAIL_FIELDS),
     claim_line_dates |-> claim_line_dates(loop, idx),
     claim_line_supplemental_amount |->
         claim_line_supplemental_amount(loop, idx, end),
     claim_line_supplemental_quantity |->
         claim_line_supplemental_quantity(loop, idx, end),
     claim_line_remarks |-> claim_line_remarks(loop, idx, end),
     claim_line_adjustments |-> claim_line_adjustments(loop, idx, end),
     claim_line_related_identifications |->
         claim_line_related_identifications(loop, idx, end)]

\* claim_lines skipping an SVC that is the final segment of the range.
claim_lines_skip_final(loop) ==
    Map(LAMBDA e : populate_claim_line(loop, e[2], e[1],
                                       svc_end_idx(loop, e[1])),
        SelectSeq(segments_by_name_index("SVC", loop),
                  LAMBDA e : e[1] < Len(loop) - 1))

claim_lines(loop) ==
    Map(LAMBDA e : populate_claim_line(loop, e[2], e[1],
                                       svc_end_idx(loop, e[1])),
        segments_by_name_index("SVC", loop))

\* claim_dates read from the segments before the first SVC only.
claim_dates_pre_svc(loop) ==
    Map(LAMBDA x : ProjectSeg(x, CLAIM_DATE_FIELDS),
        segments_by_name("DTM", pre_svc_range(loop)))

claim_dates(loop) ==
    Map(LAMBDA x : ProjectSeg(x, CLAIM_DATE_FIELDS),
        segments_by_name("DTM", loop))

\* populate_claim_loop raises exactly when min() is given an empty list.
populate_claim_loop_raises(loop) == claim_adjustments_ends(loop) = <<>>

populate_claim_loop(loop) ==
    [clp |-> ProjectFirst(loop, CLP_FIELDS, 0),
     first_nm1_patient |-> ProjectFirst(loop, FIRST_NM1_FIELDS, 0),
     claim_names |-> claim_names(loop),
     claim_contacts |-> claim_contacts(loop),
     mia |-> ProjectFirst(loop, MIA_FIELDS, 0),
     moa |-> ProjectFirst(loop, MOA_FIELDS, 0),
     claim_related_identifications |-> claim_related_identifications(loop),
     claim_supplemental_amount |-> claim_supplemental_amount(loop),
     claim_supplemental_quantity |-> claim_supplemental_quantity(loop),
     claim_adjustments |-> claim_adjustments(loop),
     claim_lines |-> claim_lines(loop),
     claim_dates |-> claim_dates(loop)]

\* to_json with the last of the six merges lost.
to_json_record_without_header(payment, payer, payee, claim, plb, header) ==
    ("payment" :> payment)
    @@ ("payer" :> payer)
    @@ ("payee" :> payee)
    @@ ("claim" :> claim)
    @@ ("provider_adjustments" :> plb)

to_json_record(payment, payer, payee, claim, plb, header) ==
    ("payment" :> payment)
    @@ ("payer" :> payer)
    @@ ("payee" :> payee)
    @@ ("claim" :> claim)
    @@ ("provider_adjustments" :> plb)
    @@ ("header_info" :> header)

----------------------------------------------------------------------------
(* The inputs: segment ranges drawn from bounded sets.  The text of every  *)
(* sub-element names the range, the position of the segment in the range,  *)
(* the token and the sub-element it sits in, so every value of a decoded   *)
(* record can be traced to the place it was read from.                     *)

\* The longest range drawn for the payer, payee, header, summary and
\* header-number roles, and for the claim role under Spec.
MaxLoopLen == 2
\* The longest claim range drawn under SpecClaim.
MaxClmLen == 4

Roles == {"header", "payer", "payee", "claim", "summary", "number"}

Text(role, p, i, j) ==
    role \o ToString(p) \o "e" \o ToString(i) \o "s" \o ToString(j)

\* A shape: the identifier, the number of tokens (identifier included) and
\* the number of sub-elements of every token after the identifier.
Shape(name, len, sub) == [name |-> name, len |-> len, sub |-> sub]

MkSeg(role, p, shape) ==
    [i \in 1..shape.len |->
        IF i = 1 THEN << shape.name >>
        ELSE [j \in 1..shape.sub |-> Text(role, p, i - 1, j - 1)]]

MkLoop(role, shapes) ==
    [p \in 1..Len(shapes) |-> MkSeg(role, p - 1, shapes[p])]

SeqsUpTo(S, n) == UNION {[1..k -> S] : k \in 0..n}

\* Full and truncated shapes of the segments each role reads.
RoleShapes(role) ==
    CASE role = "header" ->
           {Shape("BPR", 18, 1), Shape("BPR", 3, 1), Shape("TRN", 5, 1),
            Shape("TRN", 2, 1), Shape("DTM", 4, 1), Shape("DTM", 2, 1)}
      [] role = "payer" ->
           {Shape("N1", 6, 1), Shape("N1", 3, 1), Shape("N3", 3, 1),
            Shape("N4", 8, 1), Shape("N4", 3, 1), Shape("PER", 10, 1),
            Shape("PER", 3, 1), Shape("REF", 4, 1)}
      [] role = "payee" ->
           {Shape("N1", 6, 1), Shape("N3", 2, 1), Shape("N4", 8, 1),
            Shape("REF", 4, 1), Shape("REF", 2, 1), Shape("RDM", 5, 1),
            Shape("RDM", 2, 1), Shape("PER", 10, 1)}
      [] role = "claim" ->
           {Shape("CLP", 15, 1), Shape("CLP", 3, 1), Shape("NM1", 11, 1),
            Shape("NM1", 4, 1), Shape("MIA", 25, 1), Shape("MIA", 2, 1),
            Shape("MOA", 10, 1), Shape("MOA", 4, 1)}
      [] role = "summary" ->
           {Shape("PLB", 15, 2), Shape("PLB", 7, 2), Shape("PLB", 3, 1)}
      [] role = "number" ->
           {Shape("LX", 2, 1), Shape("TS3", 25, 1), Shape("TS3", 3, 1),
            Shape("TS2", 20, 1), Shape("TS2", 5, 1), Shape("LX", 1, 1)}

\* A fully populated range of each role.
FullShapes(role) ==
    CASE role = "header" ->
           << Shape("BPR", 18, 1), Shape("TRN", 5, 1), Shape("DTM", 4, 1) >>
      [] role = "payer" ->
           << Shape("N1", 6, 1), Shape("N3", 3, 1), Shape("N4", 8, 1),
              Shape("PER", 10, 1), Shape("REF", 4, 1) >>
      [] role = "payee" ->
           << Shape("N1", 6, 1), Shape("N3", 3, 1), Shape("N4", 8, 1),
              Shape("REF", 4, 1), Shape("RDM", 5, 1), Shape("PLB", 15, 2) >>
      [] role = "claim" ->
           << Shape("CLP", 15, 1), Shape("NM1", 11, 1), Shape("MIA", 25, 1),
              Shape("MOA", 10, 1), Shape("DTM", 4, 1), Shape("CAS", 20, 1),
              Shape("SVC", 8, 1), Shape("DTM", 4, 1), Shape("CAS", 5, 1),
              Shape("PLB", 15, 2) >>
      [] role = "summary" ->
           << Shape("PLB", 15, 2), Shape("PLB", 7, 2) >>
      [] role = "number" ->
           << Shape("LX", 2, 1), Shape("TS3", 25, 1), Shape("TS2", 20, 1) >>

FullLoop(role) == MkLoop(role, FullShapes(role))

RichLoops(role) ==
    {MkLoop(role, s) : s \in SeqsUpTo(RoleShapes(role), MaxLoopLen)}

\* The segments of a claim range whose order decides claim names, claim
\* lines and their ranges.
ClaimShapes ==
    {Shape("CLP", 15, 1), Shape("NM1", 11, 1), Shape("SVC", 8, 1),
     Shape("DTM", 4, 1), Shape("CAS", 5, 1), Shape("AMT", 4, 1)}

ClaimLoops == {MkLoop("claim", s) : s \in SeqsUpTo(ClaimShapes, MaxClmLen)}

\* The most CAS segments drawn between the CLP and the SVC under SpecCas.
MaxCas == 2

\* CAS segments of every length from the bare identifier to six full
\* triples.
CAS_LENGTHS == 1..20

CasLoops ==
    {MkLoop("claim", << Shape("CLP", 15, 1) >> \o s \o << Shape("SVC", 8, 1) >>) :
        s \in SeqsUpTo({Shape("CAS", n, 1) : n \in CAS_LENGTHS}, MaxCas)}

\* PLB segments of every length from the bare identifier to six full groups.
PLB_LENGTHS == 1..15

SummaryLoops ==
    {MkLoop("summary", s) :
        s \in SeqsUpTo({Shape("PLB", n, 2) : n \in PLB_LENGTHS}
                       \cup {Shape("PLB", 5, 1), Shape("TS3", 4, 1)},
                       MaxLoopLen)}

----------------------------------------------------------------------------
(* The state machine: __init__ has stored the six ranges; build() runs the *)
(* populate_* methods one after the other; to_json() assembles the record. *)

\* No Transaction is being constructed.
NoTransaction ==
    /\ tx_segments = <<>>
    /\ transaction = Unset
    /\ tx_pc = "none"
    /\ tx_state = Unset
    /\ restored = Unset

\* A Remittance whose build() has been started once and whose to_json has
\* not been called.
NewLife ==
    /\ builds = 1
    /\ calls = 0
    /\ first_json = Unset
    /\ held = Unset
    /\ modified = "no"

\* No second Remittance.
NoOther == other = [pc |-> "none"]

\* No interchange is being framed.
NoFraming ==
    /\ interchange = <<>>
    /\ cursor = 0
    /\ units = <<>>

\* __init__, lines 22-27: the ranges are stored, nothing is computed yet.
Stored(h, pr, pe, c, s, n) ==
    /\ trx_header_loop = h
    /\ payer_loop = pr
    /\ payee_loop = pe
    /\ clm_loop = c
    /\ trx_summary_loop = s
    /\ header_number_loop = n
    /\ trx_header_info = Unset
    /\ payer_info = Unset
    /\ payee_info = Unset
    /\ clm_info = Unset
    /\ plb_info = Unset
    /\ header_info = Unset
    /\ pc = "populate_trx_loop"
    /\ json = Unset
    /\ NoTransaction
    /\ NewLife
    /\ NoOther
    /\ NoFraming

\* One range of role focus is drawn from the rich set of that role; the
\* other five ranges are all empty or all fully populated.
Init ==
    \E focus \in Roles :
      \E rich \in RichLoops(focus) :
        \E full \in BOOLEAN :
          LET L(r) == IF r = focus THEN rich
                      ELSE IF full THEN FullLoop(r) ELSE <<>>
          IN  Stored(L("header"), L("payer"), L("payee"), L("claim"),
                     L("summary"), L("number"))

\* The claim range is drawn from ClaimLoops; the other five ranges are
\* empty.
InitClaim ==
    \E c \in ClaimLoops : Stored(<<>>, <<>>, <<>>, c, <<>>, <<>>)

\* The claim range is a CLP, CAS segments of any lengths and an SVC; the
\* other five ranges are empty.
InitCas ==
    \E c \in CasLoops : Stored(<<>>, <<>>, <<>>, c, <<>>, <<>>)

\* The transaction-summary range is drawn from SummaryLoops; the other five
\* ranges are all empty or all fully populated (the full payee and claim
\* ranges hold a PLB segment of their own).
InitSummary ==
    \E s \in SummaryLoops :
      \E full \in BOOLEAN :
        LET L(r) == IF full THEN FullLoop(r) ELSE <<>>
        IN  Stored(L("header"), L("payer"), L("payee"), L("claim"),
                   s, L("number"))

build_trx ==
    /\ pc = "populate_trx_loop"
    /\ trx_header_info' = populate_trx_loop(trx_header_loop)
    /\ pc' = "populate_payer_loop"
    /\ UNCHANGED <<loops, payer_info, payee_info, clm_info, plb_info,
                   header_info, json>>
    /\ UNCHANGED aside

build_payer ==
    /\ pc = "populate_payer_loop"
    /\ payer_info' = populate_payer_loop(payer_loop)
    /\ pc' = "populate_payee_loop"
    /\ UNCHANGED <<loops, trx_header_info, payee_info, clm_info, plb_info,
                   header_info, json>>
    /\ UNCHANGED aside

build_payee ==
    /\ pc = "populate_payee_loop"
    /\ payee_info' = populate_payee_loop(payee_loop)
    /\ pc' = "populate_claim_loop"
    /\ UNCHANGED <<loops, trx_header_info, payer_info, clm_info, plb_info,
                   header_info, json>>
    /\ UNCHANGED aside

\* populate_claim_loop consumes the leading segment of the range it reads.
build_claim_consuming ==
    /\ pc = "populate_claim_loop"
    /\ clm_info' = populate_claim_loop(clm_loop)
    /\ clm_loop' = IF clm_loop = <<>> THEN <<>> ELSE Tail(clm_loop)
    /\ pc' = "populate_plb_loop"
    /\ UNCHANGED <<trx_header_loop, payer_loop, payee_loop, trx_summary_loop,
                   header_number_loop, trx_header_info, payer_info,
                   payee_info, plb_info, header_info, json>>
    /\ UNCHANGED aside

\* A ValueError raised by populate_claim_loop leaves build() and __init__:
\* the attributes assigned so far stay, the others are never assigned.
build_claim ==
    /\ pc = "populate_claim_loop"
    /\ IF populate_claim_loop_raises(clm_loop)
       THEN /\ pc' = "raised"
            /\ UNCHANGED clm_info
       ELSE /\ clm_info' = populate_claim_loop(clm_loop)
            /\ pc' = "populate_plb_loop"
    /\ UNCHANGED <<loops, trx_header_info, payer_info, payee_info, plb_info,
                   header_info, json>>
    /\ UNCHANGED aside

\* populate_plb_loop collects the PLB segments of the payee and claim ranges
\* as well.
build_plb_all_ranges ==
    /\ pc = "populate_plb_loop"
    /\ plb_info' = populate_plb_loop(payee_loop \o clm_loop
                                     \o trx_summary_loop)
    /\ pc' = "populate_header_loop"
    /\ UNCHANGED <<loops, trx_header_info, payer_info, payee_info, clm_info,
                   header_info, json>>
    /\ UNCHANGED aside

\* populate_plb_loop extends the list a previous build() left behind.
build_plb_accumulating ==
    /\ pc = "populate_plb_loop"
    /\ plb_info' = IF builds > 1
                   THEN plb_info \o populate_plb_loop(trx_summary_loop)
                   ELSE populate_plb_loop(trx_summary_loop)
    /\ pc' = "populate_header_loop"
    /\ UNCHANGED <<loops, trx_header_info, payer_info, payee_info, clm_info,
                   header_info, json>>
    /\ UNCHANGED aside

build_plb ==
    /\ pc = "populate_plb_loop"
    /\ plb_info' = populate_plb_loop(trx_summary_loop)
    /\ pc' = "populate_header_loop"
    /\ UNCHANGED <<loops, trx_header_info, payer_info, payee_info, clm_info,
                   header_info, json>>
    /\ UNCHANGED aside

build_header ==
    /\ pc = "populate_header_loop"
    /\ header_info' = populate_header_loop(header_number_loop)
    /\ pc' = "built"
    /\ UNCHANGED <<loops, trx_header_info, payer_info, payee_info, clm_info,
                   plb_info, json>>
    /\ UNCHANGED aside

to_json ==
    /\ pc = "built"
    /\ json' = to_json_record(trx_header_info, payer_info, payee_info,
                              clm_info, plb_info, header_info)
    /\ pc' = "done"
    /\ UNCHANGED <<loops, infos>>
    /\ UNCHANGED aside

Next ==
    \/ build_trx
    \/ build_payer
    \/ build_payee
    \/ build_claim
    \/ build_plb
    \/ build_header
    \/ to_json

Spec == Init /\ [][Next]_vars
SpecClaim == InitClaim /\ [][Next]_vars
SpecSummary == InitSummary /\ [][Next]_vars
SpecCas == InitCas /\ [][Next]_vars

----------------------------------------------------------------------------
(* What the properties below are stated with: the decoded record of a      *)
(* finished construction, and the text a token holds, read directly from   *)
(* the input range.                                                        *)

Done == pc = "done"

\* The text of token i of seg read off the input, "" when seg has no
\* token i.
TextAt(seg, i) ==
    IF i < Len(seg)
    THEN IF Len(seg[i + 1]) = 1 THEN seg[i + 1][1]
         ELSE seg[i + 1][1] \o ":" \o seg[i + 1][2]
    ELSE ""

\* The positions of the segments named name, in document order.
Occurrences(loop, name) ==
    Ascending({p \in 0..(Len(loop) - 1) : loop[p + 1][1][1] = name})

\* The position where the loop of the marker at position i ends: the next
\* occurrence of the marker, or the end of the range.
LoopEnd(loop, name, i) ==
    LET later == {p \in (i + 1)..(Len(loop) - 1) : loop[p + 1][1][1] = name}
    IN  IF later = {} THEN Len(loop) ELSE SetMin(later)

\* The positions of the segments named name in [lo, hi), in document order.
OccurrencesIn(loop, name, lo, hi) ==
    SelectSeq(Occurrences(loop, name), LAMBDA p : lo <= p /\ p < hi)

AllEmptyText(rec) == \A k \in DOMAIN rec : rec[k] = ""

----------------------------------------------------------------------------
\* C1: whatever segments the six ranges hold, the mapping to_json returns
\* has exactly the six top-level keys payment, payer, payee, claim,
\* provider_adjustments and header_info.
TopLevelKeys ==
    Done => DOMAIN json = {"payment", "payer", "payee", "claim",
                          "provider_adjustments", "header_info"}

TopLevelKeysWitness ==
    /\ Done
    /\ payer_loop = <<>>
    /\ Positions(clm_loop, "CLP") # {}
    /\ DOMAIN json # {}

----------------------------------------------------------------------------
\* The records decoded from fully populated ranges.
ReferencePayment == populate_trx_loop(FullLoop("header"))
ReferencePayer == populate_payer_loop(FullLoop("payer"))
ReferencePayee == populate_payee_loop(FullLoop("payee"))
ReferenceClaim == populate_claim_loop(FullLoop("claim"))
ReferenceHeader == populate_header_loop(FullLoop("number"))

\* The field of row is read from a segment that does not occur in loop, or
\* whose first occurrence is too short to hold the element.
SourceMissing(loop, row) ==
    \/ Occurrences(loop, row[2]) = <<>>
    \/ Len(loop[Occurrences(loop, row[2])[1] + 1]) <= row[3]

\* rec, read from loop by the rows of tbl, has the field names of ref, and
\* every field whose source is missing is "".
SubRecordStable(rec, loop, tbl, ref) ==
    /\ DOMAIN rec = DOMAIN ref
    /\ \A r \in DOMAIN tbl :
         /\ tbl[r][1] \in DOMAIN rec
         /\ SourceMissing(loop, tbl[r]) => rec[tbl[r][1]] = ""

\* C2: every single-occurrence sub-record has the same field names for
\* every input (those of the record decoded from fully populated ranges),
\* and a field whose segment is absent from its range, or too short to hold
\* the element, is present with the value "".
SchemaStable ==
    Done =>
      /\ SubRecordStable(json["payment"].dtm, trx_header_loop,
                         TRX_DTM_FIELDS, ReferencePayment.dtm)
      /\ SubRecordStable(json["payment"].bpr, trx_header_loop,
                         BPR_FIELDS, ReferencePayment.bpr)
      /\ SubRecordStable(json["payment"].trn, trx_header_loop,
                         TRN_FIELDS, ReferencePayment.trn)
      /\ SubRecordStable(json["payer"], payer_loop, PAYER_FIELDS,
                         ReferencePayer)
      /\ SubRecordStable(json["payee"], payee_loop, PAYEE_FIELDS,
                         ReferencePayee)
      /\ SubRecordStable(json["claim"].clp, clm_loop, CLP_FIELDS,
                         ReferenceClaim.clp)
      /\ SubRecordStable(json["claim"].first_nm1_patient, clm_loop,
                         FIRST_NM1_FIELDS, ReferenceClaim.first_nm1_patient)
      /\ SubRecordStable(json["claim"].mia, clm_loop, MIA_FIELDS,
                         ReferenceClaim.mia)
      /\ SubRecordStable(json["claim"].moa, clm_loop, MOA_FIELDS,
                         ReferenceClaim.moa)
      /\ SubRecordStable(json["header_info"]["ts3"], header_number_loop,
                         TS3_FIELDS, ReferenceHeader["ts3"])
      /\ SubRecordStable(json["header_info"]["ts2"], header_number_loop,
                         TS2_FIELDS, ReferenceHeader["ts2"])

SchemaStableWitness ==
    /\ Done
    /\ Occurrences(trx_header_loop, "DTM") = <<>>
    /\ Occurrences(payer_loop, "N1") # <<>>
    /\ Len(payer_loop[Occurrences(payer_loop, "N1")[1] + 1]) = 3
    /\ json["payer"]["payer_identifier"] = ""
    /\ json["payment"].dtm["date"] = ""

----------------------------------------------------------------------------
\* The sub-record of an empty range: every scalar field "", every
\* repeatable group the empty sequence.
PaymentDefault(r) ==
    AllEmptyText(r.dtm) /\ AllEmptyText(r.bpr) /\ AllEmptyText(r.trn)

PayerDefault(r) ==
    /\ \A k \in Keys(PAYER_FIELDS) : r[k] = ""
    /\ r["payer_contact_info"] = <<>>
    /\ r["payer_additional_identification"] = <<>>

PayeeDefault(r) ==
    /\ \A k \in Keys(PAYEE_FIELDS) : r[k] = ""
    /\ r["payee_additional_identification"] = <<>>

ClaimDefault(r) ==
    /\ AllEmptyText(r.clp) /\ AllEmptyText(r.first_nm1_patient)
    /\ AllEmptyText(r.mia) /\ AllEmptyText(r.moa)
    /\ r.claim_names = <<>>
    /\ r.claim_contacts = <<>>
    /\ r.claim_related_identifications = <<>>
    /\ r.claim_supplemental_amount = <<>>
    /\ r.claim_supplemental_quantity = <<>>
    /\ r.claim_adjustments = <<>>
    /\ r.claim_lines = <<>>
    /\ r.claim_dates = <<>>

HeaderDefault(r) ==
    /\ r["assigned_num"] = ""
    /\ AllEmptyText(r["ts3"])
    /\ AllEmptyText(r["ts2"])

\* C3: a construction in which any of the six ranges is empty does not
\* raise, and the sub-record of each empty range has every scalar field ""
\* and every repeatable group empty.
AbsentLoopsDefault ==
    /\ (\E k \in DOMAIN loops : loops[k] = <<>>) => pc # "raised"
    /\ Done =>
         /\ trx_header_loop = <<>> => PaymentDefault(json["payment"])
         /\ payer_loop = <<>> => PayerDefault(json["payer"])
         /\ payee_loop = <<>> => PayeeDefault(json["payee"])
         /\ clm_loop = <<>> => ClaimDefault(json["claim"])
         /\ trx_summary_loop = <<>> => json["provider_adjustments"] = <<>>
         /\ header_number_loop = <<>> => HeaderDefault(json["header_info"])

AbsentLoopsDefaultWitness ==
    /\ Done
    /\ \A k \in DOMAIN loops : loops[k] = <<>>
    /\ ClaimDefault(json["claim"])
    /\ PayerDefault(json["payer"])

----------------------------------------------------------------------------
\* C4: claim_lines has exactly one record for every SVC of the claim range,
\* in the order of the SVC segments; no SVC gives no claim line.
ClaimLinePerSvc ==
    Done =>
      LET svcs == Occurrences(clm_loop, "SVC")
          lines == json["claim"].claim_lines
      IN  /\ Len(lines) = Len(svcs)
          /\ \A k \in DOMAIN svcs :
               /\ lines[k].claim_line_details["prcdr_cd"]
                    = TextAt(clm_loop[svcs[k] + 1], 1)
               /\ lines[k].claim_line_details["chrg_amt"]
                    = TextAt(clm_loop[svcs[k] + 1], 2)

ClaimLinePerSvcWitness ==
    /\ Done
    /\ Len(Occurrences(clm_loop, "SVC")) = 2
    /\ Len(json["claim"].claim_lines) = 2
    /\ clm_loop[Len(clm_loop)][1][1] = "SVC"

----------------------------------------------------------------------------
\* The group codes of the adjustment records, and the qualifiers of the
\* supplemental amounts, a line would hold if it projected the segments at
\* the positions [lo, hi) of the claim range.
GroupCodesIn(loop, lo, hi) ==
    LET ps == OccurrencesIn(loop, "CAS", lo, hi)
    IN  [k \in DOMAIN ps |-> TextAt(loop[ps[k] + 1], 1)]

AmountQualifiersIn(loop, lo, hi) ==
    LET ps == OccurrencesIn(loop, "AMT", lo, hi)
    IN  [k \in DOMAIN ps |-> TextAt(loop[ps[k] + 1], 1)]

GroupCodesOf(line) ==
    [k \in DOMAIN line.claim_line_adjustments |->
        line.claim_line_adjustments[k]["adjustment_grp_cd"]]

AmountQualifiersOf(line) ==
    [k \in DOMAIN line.claim_line_supplemental_amount |->
        line.claim_line_supplemental_amount[k]["amt_qualifier_cd"]]

\* C5: the claim line of the SVC at position i projects exactly the
\* segments at [i, j), j the position of the next SVC or the length of the
\* claim range; the last line includes the final segment of the range.
LineSpansToNextSvcOrEnd ==
    Done =>
      LET svcs == Occurrences(clm_loop, "SVC")
          lines == json["claim"].claim_lines
      IN  \A k \in DOMAIN svcs :
            k \in DOMAIN lines =>
              LET i == svcs[k]
                  j == LoopEnd(clm_loop, "SVC", i)
              IN  /\ GroupCodesOf(lines[k]) = GroupCodesIn(clm_loop, i, j)
                  /\ AmountQualifiersOf(lines[k])
                       = AmountQualifiersIn(clm_loop, i, j)

----------------------------------------------------------------------------
\* C6: the claim_line_dates of a claim line are read from a DTM inside the
\* line's own range [i, j); a line whose range holds no DTM has date_code,
\* date and time all "", never those of a DTM of a later line.
LineDatesFromOwnRange ==
    Done =>
      LET svcs == Occurrences(clm_loop, "SVC")
          lines == json["claim"].claim_lines
      IN  \A k \in DOMAIN svcs :
            k \in DOMAIN lines =>
              LET i == svcs[k]
                  own == OccurrencesIn(clm_loop, "DTM", i,
                                       LoopEnd(clm_loop, "SVC", i))
                  d == lines[k].claim_line_dates
              IN  IF own = <<>>
                  THEN d["date_code"] = "" /\ d["date"] = "" /\ d["time"] = ""
                  ELSE \E n \in DOMAIN own :
                         /\ d["date_code"] = TextAt(clm_loop[own[n] + 1], 1)
                         /\ d["date"] = TextAt(clm_loop[own[n] + 1], 2)
                         /\ d["time"] = TextAt(clm_loop[own[n] + 1], 3)

----------------------------------------------------------------------------
CasKey(kind, t) == "adjustment_" \o kind \o "_" \o ToString(t)

CAS_KEYS ==
    {"adjustment_grp_cd"}
    \cup {CasKey(kind, t) : kind \in {"reason_cd", "amount", "quantity"},
                            t \in 1..6}

\* C7: unpacking a CAS segment gives one record with the group code of
\* element 1 and all six (reason, amount, quantity) triples of elements
\* (2,3,4) ... (17,18,19); every slot is emitted, and a slot past the end of
\* the segment is "", "", "" (never None, never left out).
CasUnpacksSixTriples ==
    Done =>
      LET cas == Occurrences(clm_loop, "CAS")
          adj == json["claim"].claim_adjustments
      IN  /\ Len(adj) = Len(cas)
          /\ \A k \in DOMAIN cas :
               LET seg == clm_loop[cas[k] + 1]
                   r == adj[k]
               IN  /\ DOMAIN r = CAS_KEYS
                   /\ \A f \in DOMAIN r : r[f] # None
                   /\ r["adjustment_grp_cd"] = TextAt(seg, 1)
                   /\ \A t \in 1..6 :
                        /\ r[CasKey("reason_cd", t)] = TextAt(seg, 3 * t - 1)
                        /\ r[CasKey("amount", t)] = TextAt(seg, 3 * t)
                        /\ r[CasKey("quantity", t)] = TextAt(seg, 3 * t + 1)
                        /\ Len(seg) <= 3 * t - 1 =>
                             /\ r[CasKey("reason_cd", t)] = ""
                             /\ r[CasKey("amount", t)] = ""
                             /\ r[CasKey("quantity", t)] = ""

\* A CAS with a group code and one triple only.
CasUnpacksSixTriplesWitness ==
    /\ Done
    /\ Len(clm_loop) = 3
    /\ Len(clm_loop[2]) = 5
    /\ Len(json["claim"].claim_adjustments) = 1
    /\ json["claim"].claim_adjustments[1]["adjustment_amount_1"]
         = TextAt(clm_loop[2], 3)
    /\ json["claim"].claim_adjustments[1]["adjustment_quantity_6"] = ""

----------------------------------------------------------------------------
PlbKey(kind, g) == "provider_adjustment_" \o kind \o "_" \o ToString(g)

PlbGroup(r, g) ==
    << r[PlbKey("reason_cd", g)], r[PlbKey("id", g)], r[PlbKey("amt", g)] >>

\* Sub-element j of token i of seg read off the input, "" when absent.
SubTextAt(seg, i, j) ==
    IF i < Len(seg) /\ j < Len(seg[i + 1]) THEN seg[i + 1][j + 1] ELSE ""

\* C8: the fields of PLB group g carry values only when the segment is long
\* enough to hold the group's starting position, the composite element
\* 2g+1; otherwise all three are None, not "".  A segment long enough for
\* exactly two groups has groups 1-2 populated and groups 3-6 all None.
PlbGroupsPresentOrNone ==
    Done =>
      LET plbs == Occurrences(trx_summary_loop, "PLB")
          recs == json["provider_adjustments"]
      IN  \A k \in DOMAIN plbs :
            k \in DOMAIN recs =>
              LET seg == trx_summary_loop[plbs[k] + 1]
                  r == recs[k]
              IN  /\ \A g \in 1..6 :
                       /\ Len(seg) <= 2 * g + 1 =>
                            PlbGroup(r, g) = << None, None, None >>
                       /\ Len(seg) > 2 * g + 1 =>
                            /\ r[PlbKey("reason_cd", g)]
                                 = SubTextAt(seg, 2 * g + 1, 0)
                            /\ r[PlbKey("id", g)]
                                 = SubTextAt(seg, 2 * g + 1, 1)
                       /\ r[PlbKey("amt", g)] # None =>
                            /\ Len(seg) > 2 * g + 1
                            /\ r[PlbKey("amt", g)] = TextAt(seg, 2 * g + 2)
                  /\ Len(seg) = 7 =>
                       /\ \A g \in 1..2, f \in 1..3 : PlbGroup(r, g)[f] # None
                       /\ \A g \in 3..6 :
                            PlbGroup(r, g) = << None, None, None >>

\* A PLB long enough for exactly two groups.
PlbGroupsPresentOrNoneWitness ==
    /\ Done
    /\ Len(trx_summary_loop) = 1
    /\ trx_summary_loop[1][1][1] = "PLB"
    /\ Len(trx_summary_loop[1]) = 7
    /\ Len(json["provider_adjustments"]) = 1
    /\ json["provider_adjustments"][1]["provider_adjustment_amt_2"]
         = TextAt(trx_summary_loop[1], 6)
    /\ json["provider_adjustments"][1]["provider_adjustment_id_3"] = None

----------------------------------------------------------------------------
\* C9: provider_adjustments has exactly one record for every PLB of the
\* transaction-summary range, in document order, with provider_identifier
\* element 1 and fiscal_period_date element 2 of that PLB; a PLB of another
\* range adds nothing, and no PLB in the summary range gives the empty
\* sequence.
ProviderAdjustmentPerPlb ==
    Done =>
      LET plbs == Occurrences(trx_summary_loop, "PLB")
          recs == json["provider_adjustments"]
      IN  /\ Len(recs) = Len(plbs)
          /\ \A k \in DOMAIN plbs :
               /\ recs[k]["provider_identifier"]
                    = TextAt(trx_summary_loop[plbs[k] + 1], 1)
               /\ recs[k]["fiscal_period_date"]
                    = TextAt(trx_summary_loop[plbs[k] + 1], 2)

\* Two PLB segments in the summary range, and a PLB in the payee range.
ProviderAdjustmentPerPlbWitness ==
    /\ Done
    /\ Len(Occurrences(trx_summary_loop, "PLB")) = 2
    /\ Occurrences(payee_loop, "PLB") # <<>>
    /\ Len(trx_summary_loop[1]) >= 3
    /\ Len(json["provider_adjustments"]) = 2

----------------------------------------------------------------------------
NameCodesOf(names) ==
    [k \in DOMAIN names |-> names[k]["entity_identifier_code"]]

NameCodesIn(loop, lo, hi) ==
    LET ps == OccurrencesIn(loop, "NM1", lo, hi)
    IN  [k \in DOMAIN ps |-> TextAt(loop[ps[k] + 1], 1)]

\* The position of the first SVC of the range, its length when it has none.
FirstSvc(loop) ==
    IF Occurrences(loop, "SVC") = <<>> THEN Len(loop)
    ELSE Occurrences(loop, "SVC")[1]

\* One less than the position of the first CLP found after the leading
\* segment of the range, the length of the range when there is none.
NamesEnd(loop) ==
    LET later == OccurrencesIn(loop, "CLP", 1, Len(loop))
    IN  IF later = <<>> THEN Len(loop) ELSE later[1] - 1

\* C10 as stated: claim_names has one record for each NM1 before the first
\* SVC of the claim range and none for an NM1 at or after the first SVC.
ClaimNamesBeforeFirstSvc ==
    Done =>
      NameCodesOf(json["claim"].claim_names)
        = NameCodesIn(clm_loop, 0, FirstSvc(clm_loop))

\* C10 as amended: claim_names has one record, in document order, for each
\* NM1 at a position below NamesEnd and none for an NM1 at or after it;
\* the position of the first SVC plays no part.
ClaimNamesBeforeNamesEnd ==
    Done =>
      NameCodesOf(json["claim"].claim_names)
        = NameCodesIn(clm_loop, 0, NamesEnd(clm_loop))

\* An NM1 after the first SVC, with no second CLP, is in claim_names.
ClaimNamesBeforeNamesEndWitness ==
    /\ Done
    /\ OccurrencesIn(clm_loop, "CLP", 1, Len(clm_loop)) = <<>>
    /\ Occurrences(clm_loop, "SVC") # <<>>
    /\ OccurrencesIn(clm_loop, "NM1", FirstSvc(clm_loop), Len(clm_loop))
         # <<>>
    /\ Len(json["claim"].claim_names) = Len(Occurrences(clm_loop, "NM1"))

----------------------------------------------------------------------------
(* Claim ranges for the claim-level repeatable groups.                     *)

GroupShapes ==
    {Shape("CLP", 15, 1), Shape("PER", 10, 1), Shape("REF", 4, 1),
     Shape("AMT", 4, 1), Shape("QTY", 4, 1), Shape("SVC", 8, 1)}

GroupLoops == {MkLoop("claim", s) : s \in SeqsUpTo(GroupShapes, MaxClmLen)}

\* The claim range is drawn from GroupLoops; the other five ranges are
\* empty.
InitGroups ==
    \E c \in GroupLoops : Stored(<<>>, <<>>, <<>>, c, <<>>, <<>>)

SpecGroups == InitGroups /\ [][Next]_vars

\* The texts of element i of the segments named name at [lo, hi).
TextsIn(loop, name, i, lo, hi) ==
    LET ps == OccurrencesIn(loop, name, lo, hi)
    IN  [k \in DOMAIN ps |-> TextAt(loop[ps[k] + 1], i)]

\* The values of field f of the records of a group.
FieldOf(recs, f) == [k \in DOMAIN recs |-> recs[k][f]]

\* C11: claim_contacts (PER), claim_related_identifications (REF),
\* claim_supplemental_amount (AMT) and claim_supplemental_quantity (QTY)
\* each hold exactly one record per matching segment before the first SVC
\* of the claim range, in document order, none from the first SVC on; with
\* no SVC the pre-SVC range is the whole claim range, its last segment
\* included.
ClaimGroupsBeforeFirstSvc ==
    Done =>
      LET c == json["claim"]
          e == FirstSvc(clm_loop)
      IN  /\ FieldOf(c.claim_contacts, "contact_function_cd")
               = TextsIn(clm_loop, "PER", 1, 0, e)
          /\ FieldOf(c.claim_contacts, "contact_inquiry_reference")
               = TextsIn(clm_loop, "PER", 9, 0, e)
          /\ FieldOf(c.claim_related_identifications, "id_qualifier_code")
               = TextsIn(clm_loop, "REF", 1, 0, e)
          /\ FieldOf(c.claim_related_identifications, "description")
               = TextsIn(clm_loop, "REF", 3, 0, e)
          /\ FieldOf(c.claim_supplemental_amount, "amount_qualifier_code")
               = TextsIn(clm_loop, "AMT", 1, 0, e)
          /\ FieldOf(c.claim_supplemental_amount, "amt")
               = TextsIn(clm_loop, "AMT", 2, 0, e)
          /\ FieldOf(c.claim_supplemental_quantity, "quantity_qualifier_code")
               = TextsIn(clm_loop, "QTY", 1, 0, e)
          /\ FieldOf(c.claim_supplemental_quantity, "qty")
               = TextsIn(clm_loop, "QTY", 2, 0, e)

\* No SVC, and the last segment of the range is a QTY that is decoded.
ClaimGroupsBeforeFirstSvcWitness ==
    /\ Done
    /\ Occurrences(clm_loop, "SVC") = <<>>
    /\ Len(clm_loop) = 3
    /\ clm_loop[3][1][1] = "QTY"
    /\ clm_loop[2][1][1] = "PER"
    /\ Len(json["claim"].claim_supplemental_quantity) = 1
    /\ Len(json["claim"].claim_contacts) = 1

----------------------------------------------------------------------------
\* C12: claim_adjustments holds exactly one adjustment record for every CAS
\* after the leading CLP and before the first SVC of the claim range (before
\* the end of the range when it has no SVC), in document order; a CAS of a
\* service line is never in claim_adjustments and a claim-level CAS never
\* in a claim_line_adjustments.
ClaimAdjustmentsBeforeFirstSvc ==
    (Done /\ clm_loop # <<>> /\ clm_loop[1][1][1] = "CLP") =>
      LET c == json["claim"]
          e == FirstSvc(clm_loop)
      IN  /\ FieldOf(c.claim_adjustments, "adjustment_grp_cd")
               = TextsIn(clm_loop, "CAS", 1, 1, e)
          /\ \A k \in DOMAIN c.claim_adjustments :
               \A p \in e..(Len(clm_loop) - 1) :
                 clm_loop[p + 1][1][1] = "CAS" =>
                   c.claim_adjustments[k]["adjustment_grp_cd"]
                     # TextAt(clm_loop[p + 1], 1)
          /\ \A n \in DOMAIN c.claim_lines :
               \A k \in DOMAIN c.claim_lines[n].claim_line_adjustments :
                 \A p \in 0..(e - 1) :
                   clm_loop[p + 1][1][1] = "CAS" =>
                     c.claim_lines[n].claim_line_adjustments[k]
                         ["adjustment_grp_cd"]
                       # TextAt(clm_loop[p + 1], 1)

----------------------------------------------------------------------------
\* C13 as stated: the payer record and the payee record both carry a PER
\* contact group and a REF additional-identification group, one entry per
\* PER and per REF of their own range, in document order; the payee record
\* also carries the four RDM delivery fields.
PayerAndPayeeContactsAndIds ==
    (Done /\ Occurrences(payee_loop, "PER") # <<>>) =>
      /\ FieldOf(json["payer"]["payer_contact_info"], "contact_function_cd")
           = TextsIn(payer_loop, "PER", 1, 0, Len(payer_loop))
      /\ FieldOf(json["payer"]["payer_additional_identification"], "id")
           = TextsIn(payer_loop, "REF", 2, 0, Len(payer_loop))
      /\ "payee_contact_info" \in DOMAIN json["payee"]
      /\ FieldOf(json["payee"]["payee_contact_info"], "contact_function_cd")
           = TextsIn(payee_loop, "PER", 1, 0, Len(payee_loop))
      /\ FieldOf(json["payee"]["payee_additional_identification"], "id")
           = TextsIn(payee_loop, "REF", 2, 0, Len(payee_loop))
      /\ {"delivery_report_transmission_code", "delivery_name",
          "delivery_communication_number", "delivery_reference_identifier"}
           \subseteq DOMAIN json["payee"]

\* The sequence-valued fields of the payee record are its repeatable groups.
PAYEE_GROUPS == {"payee_additional_identification"}

\* The first RDM of the payee range, the empty segment when it has none.
FirstRdm ==
    IF Occurrences(payee_loop, "RDM") = <<>> THEN << <<"">> >>
    ELSE payee_loop[Occurrences(payee_loop, "RDM")[1] + 1]

\* C13 as amended: the payer record carries a PER contact group and a REF
\* additional-identification group, one entry per PER and per REF of the
\* payer range, in document order; the payee record carries a REF
\* additional-identification group, one entry per REF of the payee range in
\* document order, and the four RDM delivery fields, and no PER contact
\* group: a PER of the payee range is not decoded.
PayerContactsPayeeIdsOnly ==
    Done =>
      /\ FieldOf(json["payer"]["payer_contact_info"], "contact_function_cd")
           = TextsIn(payer_loop, "PER", 1, 0, Len(payer_loop))
      /\ FieldOf(json["payer"]["payer_contact_info"], "contact_name")
           = TextsIn(payer_loop, "PER", 2, 0, Len(payer_loop))
      /\ FieldOf(json["payer"]["payer_additional_identification"], "id")
           = TextsIn(payer_loop, "REF", 2, 0, Len(payer_loop))
      /\ FieldOf(json["payee"]["payee_additional_identification"], "id")
           = TextsIn(payee_loop, "REF", 2, 0, Len(payee_loop))
      /\ FieldOf(json["payee"]["payee_additional_identification"],
                 "id_qualifier_code")
           = TextsIn(payee_loop, "REF", 1, 0, Len(payee_loop))
      /\ DOMAIN json["payee"] = Keys(PAYEE_FIELDS) \cup PAYEE_GROUPS
      /\ json["payee"]["delivery_report_transmission_code"]
           = TextAt(FirstRdm, 1)
      /\ json["payee"]["delivery_name"] = TextAt(FirstRdm, 2)
      /\ json["payee"]["delivery_communication_number"] = TextAt(FirstRdm, 3)
      /\ json["payee"]["delivery_reference_identifier"] = TextAt(FirstRdm, 4)

\* A payee range with a PER and a REF, and a payer range with both.
PayerContactsPayeeIdsOnlyWitness ==
    /\ Done
    /\ Occurrences(payee_loop, "PER") # <<>>
    /\ Occurrences(payee_loop, "REF") # <<>>
    /\ Len(json["payee"]["payee_additional_identification"]) = 1
    /\ Len(json["payer"]["payer_contact_info"]) = 1
    /\ Len(json["payer"]["payer_additional_identification"]) = 1

----------------------------------------------------------------------------
(* Transaction (transaction.py): the object built over the segments of one *)
(* transaction set.                                                        *)

\* The delimiter class that is the default of __init__.
AnsiX12Delim == "AnsiX12Delim"

\* for segment in self.data: the last ST sets the fields (no break).
_parse_st_segment_no_break(self) ==
    LET st == {i \in DOMAIN self.data : segment_name(self.data[i]) = "ST"}
    IN  IF st = {} THEN self
        ELSE LET segment == self.data[CHOOSE i \in st : \A k \in st : k <= i]
             IN  [self EXCEPT
                    !.transaction_set_identifier_code = element(segment, 1),
                    !.transaction_set_control_number = element(segment, 2),
                    !.implementation_convention_reference =
                        element(segment, 3)]

\* Transaction._parse_st_segment: the first segment named ST sets the three
\* fields, then the loop breaks; without an ST nothing is assigned.
_parse_st_segment(self) ==
    LET st == {i \in DOMAIN self.data : segment_name(self.data[i]) = "ST"}
    IN  IF st = {} THEN self
        ELSE LET segment == self.data[SetMin(st)]
             IN  [self EXCEPT
                    !.transaction_set_identifier_code = element(segment, 1),
                    !.transaction_set_control_number = element(segment, 2),
                    !.implementation_convention_reference =
                        element(segment, 3)]

\* Transaction.__init__(segments, delim_cls, transaction_type)
Transaction(segs, delim_cls, transaction_type) ==
    _parse_st_segment(
        [data |-> segs,
         format_cls |-> delim_cls,
         transaction_type |-> transaction_type,
         transaction_set_identifier_code |-> None,
         transaction_set_control_number |-> None,
         implementation_convention_reference |-> None])

MaxTxLen == 3

TxShapes ==
    {Shape("ST", 4, 1), Shape("ST", 2, 1), Shape("SE", 3, 1),
     Shape("BPR", 3, 1)}

TxRanges == {MkLoop("tx", s) : s \in SeqsUpTo(TxShapes, MaxTxLen)}

TransactionTypes == {None, "835"}

\* No Remittance is being constructed.
NoRemittance ==
    /\ trx_header_loop = <<>>
    /\ payer_loop = <<>>
    /\ payee_loop = <<>>
    /\ clm_loop = <<>>
    /\ trx_summary_loop = <<>>
    /\ header_number_loop = <<>>
    /\ trx_header_info = Unset
    /\ payer_info = Unset
    /\ payee_info = Unset
    /\ clm_info = Unset
    /\ plb_info = Unset
    /\ header_info = Unset
    /\ pc = "none"
    /\ json = Unset
    /\ NewLife
    /\ NoOther

\* A caller is about to construct a Transaction over a range of segments.
InitTx ==
    /\ tx_segments \in TxRanges
    /\ transaction = Unset
    /\ tx_pc = "new"
    /\ tx_state = Unset
    /\ restored = Unset
    /\ NoRemittance
    /\ NoFraming

\* Transaction(segments, transaction_type=...): __init__ assigns the six
\* attributes and runs _parse_st_segment; nothing in it raises.
construct_transaction ==
    /\ tx_pc = "new"
    /\ \E transaction_type \in TransactionTypes :
         transaction' =
             Transaction(tx_segments, AnsiX12Delim, transaction_type)
    /\ tx_pc' = "constructed"
    /\ UNCHANGED <<tx_segments, tx_state, restored, loops, infos, pc, json,
                   life, other, framing>>

\* __getstate__ leaving out the three ST header fields.
__getstate___without_st(self) ==
    [data |-> self.data,
     format_cls |-> self.format_cls,
     transaction_type |-> self.transaction_type]

\* Transaction.__getstate__: a dict of the six attributes.
__getstate__(self) ==
    [data |-> self.data,
     format_cls |-> self.format_cls,
     transaction_type |-> self.transaction_type,
     transaction_set_identifier_code |-> self.transaction_set_identifier_code,
     transaction_set_control_number |-> self.transaction_set_control_number,
     implementation_convention_reference |->
         self.implementation_convention_reference]

\* dict.get(key): the value of the key, None when the dict has no such key.
dict_get(d, key) == IF key \in DOMAIN d THEN d[key] ELSE None

\* state['data'], state['format_cls'] or state['transaction_type'] raises
\* KeyError when the key is missing.
__setstate___raises(state) ==
    ~ ({"data", "format_cls", "transaction_type"} \subseteq DOMAIN state)

\* Transaction.__setstate__: the attributes of the object pickle has made
\* without calling __init__, assigned from the state.
__setstate__(state) ==
    [data |-> state["data"],
     format_cls |-> state["format_cls"],
     transaction_type |-> state["transaction_type"],
     transaction_set_identifier_code |->
         dict_get(state, "transaction_set_identifier_code"),
     transaction_set_control_number |->
         dict_get(state, "transaction_set_control_number"),
     implementation_convention_reference |->
         dict_get(state, "implementation_convention_reference")]

\* The keys of a state pickled before the ST header fields were added.
LEGACY_KEYS == {"data", "format_cls", "transaction_type"}

\* pickle takes the state of the constructed object, or the caller holds a
\* state of the same object that was pickled without the three ST keys.
getstate ==
    /\ tx_pc = "constructed"
    /\ \/ /\ tx_state' = __getstate__(transaction)
          /\ tx_pc' = "pickled"
       \/ /\ tx_state' = [k \in LEGACY_KEYS |-> __getstate__(transaction)[k]]
          /\ tx_pc' = "pickled_legacy"
    /\ UNCHANGED <<tx_segments, transaction, restored, loops, infos, pc,
                   json, life, other, framing>>

\* pickle restores an object from the state.
setstate ==
    /\ tx_pc \in {"pickled", "pickled_legacy"}
    /\ IF __setstate___raises(tx_state)
       THEN /\ tx_pc' = "raised"
            /\ UNCHANGED restored
       ELSE /\ restored' = __setstate__(tx_state)
            /\ tx_pc' = IF tx_pc = "pickled" THEN "restored"
                        ELSE "restored_legacy"
    /\ UNCHANGED <<tx_segments, transaction, tx_state, loops, infos, pc,
                   json, life, other, framing>>

NextTx ==
    \/ construct_transaction
    \/ getstate
    \/ setstate

SpecTx == InitTx /\ [][NextTx]_vars

Constructed == tx_pc = "constructed"

\* C14: after a Transaction is constructed over a range that contains an
\* ST, its transaction_set_identifier_code, transaction_set_control_number
\* and implementation_convention_reference are elements 1, 2 and 3 of the
\* first ST of the range, whatever ST segments follow it.
StFieldsFromFirstSt ==
    (Constructed /\ Occurrences(tx_segments, "ST") # <<>>) =>
      LET st == tx_segments[Occurrences(tx_segments, "ST")[1] + 1]
      IN  /\ transaction.transaction_set_identifier_code = TextAt(st, 1)
          /\ transaction.transaction_set_control_number = TextAt(st, 2)
          /\ transaction.implementation_convention_reference = TextAt(st, 3)

\* Two full ST segments, the first not at the head of the range.
StFieldsFromFirstStWitness ==
    /\ Constructed
    /\ Occurrences(tx_segments, "ST") = <<1, 2>>
    /\ Len(tx_segments[2]) = 4
    /\ Len(tx_segments[3]) = 4
    /\ transaction.transaction_set_control_number = "tx1e2s0"

----------------------------------------------------------------------------
\* C16: constructing a transaction over a range that does not start with an
\* ST fails with an error: no Transaction comes out of it, neither one
\* whose header fields are unset nor one whose fields are read from an ST
\* further down the range.
NonStRangeIsRejected ==
    (tx_pc # "new" /\ tx_segments # <<>> /\ tx_segments[1][1][1] # "ST") =>
      tx_pc = "raised"

----------------------------------------------------------------------------
(* The Envelope/Transaction Framer of spec 4.3: it walks the segments of   *)
(* an interchange and surfaces, for every ST, either the transaction set   *)
(* ST..SE or a structural-error marker.                                    *)

\* The ST and SE positions of data after position s.
EnvelopeMarksAfter(data, s) ==
    {i \in Positions(data, "ST") \cup Positions(data, "SE") : i > s}

\* What framing the unit of the ST at position s surfaces, and where the
\* framer goes on.  The ST is matched when the next ST or SE after it is an
\* SE.
frame_unit(data, s) ==
    LET marks == EnvelopeMarksAfter(data, s)
    IN  IF marks # {} /\ segment_name(data[SetMin(marks) + 1]) = "SE"
        THEN [surfaced |->
                [kind |-> "transaction",
                 first |-> s,
                 last |-> SetMin(marks),
                 transaction |->
                     Transaction(PySlice(data, s, SetMin(marks) + 1),
                                 AnsiX12Delim, None)],
              next |-> SetMin(marks) + 1]
        ELSE [surfaced |->
                [kind |-> "structural-error",
                 segment_index |-> s,
                 expected |-> "SE",
                 found |-> IF marks = {} THEN "" ELSE "ST"],
              next |-> IF marks = {} THEN Len(data) ELSE SetMin(marks)]

\* The framer gives up at the first unmatched ST: nothing after it is
\* framed.
frame_from_abort(data, from) ==
    LET sts == {i \in Positions(data, "ST") : i >= from}
    IN  IF sts = {} THEN [surfaced |-> <<>>, next |-> Len(data)]
        ELSE LET unit == frame_unit(data, SetMin(sts))
             IN  [surfaced |-> <<unit.surfaced>>,
                  next |-> IF unit.surfaced.kind = "structural-error"
                           THEN Len(data) ELSE unit.next]

\* One step of the framer from position from: the unit of the next ST, or
\* the end of the interchange when no ST is left.
frame_from(data, from) ==
    LET sts == {i \in Positions(data, "ST") : i >= from}
    IN  IF sts = {} THEN [surfaced |-> <<>>, next |-> Len(data)]
        ELSE LET unit == frame_unit(data, SetMin(sts))
             IN  [surfaced |-> <<unit.surfaced>>, next |-> unit.next]

MaxFrameLen == 4

FrameShapes == {Shape("ST", 4, 1), Shape("SE", 3, 1), Shape("BPR", 3, 1)}

Interchanges == {MkLoop("ic", s) : s \in SeqsUpTo(FrameShapes, MaxFrameLen)}

InitFrame ==
    /\ interchange \in Interchanges
    /\ cursor = 0
    /\ units = <<>>
    /\ NoTransaction
    /\ NoRemittance

frame_next ==
    /\ cursor < Len(interchange)
    /\ units' = units \o frame_from(interchange, cursor).surfaced
    /\ cursor' = frame_from(interchange, cursor).next
    /\ UNCHANGED <<interchange, txn, loops, infos, pc, json, life, other>>

NextFrame == frame_next

SpecFrame == InitFrame /\ [][NextFrame]_vars

Framed == cursor = Len(interchange)

\* The ST at position s has no matching SE: the next ST or SE after it is
\* an ST, or there is none.
Unmatched(s) ==
    LET later == {p \in (s + 1)..(Len(interchange) - 1) :
                    interchange[p + 1][1][1] \in {"ST", "SE"}}
    IN  \A p \in later :
          (\A q \in later : p <= q) => interchange[p + 1][1][1] = "ST"

\* C15: when the framer has gone through the interchange it has surfaced
\* one unit per ST, in document order: a structural-error marker at the
\* position of every ST without a matching SE, and for every other ST,
\* the ones after an unmatched ST included, the transaction set decoded
\* from that ST.
UnmatchedStDoesNotBlockSiblings ==
    Framed =>
      LET sts == Occurrences(interchange, "ST")
      IN  /\ Len(units) = Len(sts)
          /\ \A k \in DOMAIN sts :
               IF Unmatched(sts[k])
               THEN /\ units[k].kind = "structural-error"
                    /\ units[k].segment_index = sts[k]
               ELSE /\ units[k].kind = "transaction"
                    /\ units[k].first = sts[k]
                    /\ units[k].transaction.transaction_set_control_number
                         = TextAt(interchange[sts[k] + 1], 2)

\* An unmatched ST followed by a well-formed ST..SE: the marker, then the
\* transaction set.
UnmatchedStDoesNotBlockSiblingsWitness ==
    /\ Framed
    /\ Len(units) = 2
    /\ units[1].kind = "structural-error"
    /\ units[2].kind = "transaction"
    /\ units[2].last = 3

----------------------------------------------------------------------------
(* The life of a built Remittance: its caller may call build() again, call *)
(* to_json again, and modify the mapping the first to_json returned.  The  *)
(* values of that mapping are the objects the attributes of the Remittance *)
(* refer to (to_json merges {'payment': self.trx_header_info}, ...), so a  *)
(* change made through them is a change of the attributes.                 *)

MaxBuilds == 2
MaxCalls == 1

\* d["note"] = "changed" on a dict.
set_item(d) == ("note" :> "changed") @@ d

\* l.append({"note": "changed"}) on a list.
append_item(l) == Append(l, [note |-> "changed"])

\* Every range is empty or fully populated.
InitLife ==
    \E full \in [Roles -> BOOLEAN] :
      LET L(r) == IF full[r] THEN FullLoop(r) ELSE <<>>
      IN  Stored(L("header"), L("payer"), L("payee"), L("claim"),
                 L("summary"), L("number"))

\* The value of first_json once the result of the first to_json call is
\* left behind.
FirstResult == IF builds = 1 /\ calls = 0 THEN json ELSE first_json

\* The caller calls build() on the built object: the six populate_* methods
\* run again, each assigning its attribute anew.
build_again ==
    /\ pc = "done"
    /\ builds < MaxBuilds
    /\ builds' = builds + 1
    /\ first_json' = FirstResult
    /\ pc' = "populate_trx_loop"
    /\ UNCHANGED <<loops, infos, json, calls, held, modified, txn, other,
                   framing>>

\* A further to_json call on the built object.
to_json_again ==
    /\ pc = "done"
    /\ calls < MaxCalls
    /\ calls' = calls + 1
    /\ first_json' = FirstResult
    /\ json' = to_json_record(trx_header_info, payer_info, payee_info,
                              clm_info, plb_info, header_info)
    /\ UNCHANGED <<loops, infos, pc, builds, held, modified, txn, other,
                   framing>>

FirstCallReturned == pc = "done" /\ builds = 1 /\ calls = 0 /\ modified = "no"

\* The caller replaces a value of the mapping the first to_json returned:
\* result[k] = "changed".  The mapping is a dict of its own, made by the
\* call.
caller_sets_key ==
    /\ FirstCallReturned
    /\ \E k \in DOMAIN json : held' = [json EXCEPT ![k] = "changed"]
    /\ modified' = "key"
    /\ UNCHANGED <<loops, infos, pc, json, builds, calls, first_json, txn,
                   other, framing>>

SubRecordKeys == {"payment", "payer", "payee", "claim", "header_info"}

\* The caller changes a sub-record reached through the mapping:
\* result[k]["note"] = "changed".  result[k] is the attribute itself.
caller_sets_field ==
    /\ FirstCallReturned
    /\ \E k \in SubRecordKeys :
         LET At(key, info) == IF k = key THEN set_item(info) ELSE info
         IN  /\ held' = [json EXCEPT ![k] = set_item(@)]
             /\ trx_header_info' = At("payment", trx_header_info)
             /\ payer_info' = At("payer", payer_info)
             /\ payee_info' = At("payee", payee_info)
             /\ clm_info' = At("claim", clm_info)
             /\ header_info' = At("header_info", header_info)
    /\ modified' = "field"
    /\ UNCHANGED <<loops, plb_info, pc, json, builds, calls, first_json, txn,
                   other, framing>>

\* The caller appends to a sequence reached through the mapping:
\* result["provider_adjustments"].append(...) or
\* result["claim"]["claim_lines"].append(...).
caller_appends ==
    /\ FirstCallReturned
    /\ \/ /\ held' = [json EXCEPT !["provider_adjustments"] = append_item(@)]
          /\ plb_info' = append_item(plb_info)
          /\ UNCHANGED clm_info
       \/ /\ held' = [json EXCEPT !["claim"].claim_lines = append_item(@)]
          /\ clm_info' = [clm_info EXCEPT !.claim_lines = append_item(@)]
          /\ UNCHANGED plb_info
    /\ modified' = "sequence"
    /\ UNCHANGED <<loops, trx_header_info, payer_info, payee_info,
                   header_info, pc, json, builds, calls, first_json, txn,
                   other, framing>>

NextLife ==
    \/ Next
    \/ build_again
    \/ to_json_again
    \/ caller_sets_key
    \/ caller_sets_field
    \/ caller_appends

SpecLife == InitLife /\ [][NextLife]_vars

\* C17: when build() has run again on a Remittance, over the same six
\* ranges, the mapping to_json returns is equal to the one its first
\* to_json call returned.
RebuildYieldsEqualRecord ==
    (Done /\ builds >= 2) => json = first_json

\* A second build over ranges that all hold segments, finished and read.
RebuildYieldsEqualRecordWitness ==
    /\ Done
    /\ builds = 2
    /\ \A i \in DOMAIN loops : loops[i] # <<>>
    /\ Len(json["provider_adjustments"]) = 2
    /\ Len(json["claim"].claim_lines) > 0

----------------------------------------------------------------------------
\* C18: no step of the construction (the six populate_* methods), of
\* to_json or of a later build() or to_json changes any of the six segment
\* ranges the caller supplied.
RangesUnchanged == [][loops' = loops]_vars

\* The construction and to_json have run over six ranges that hold
\* segments.
RangesUnchangedWitness ==
    /\ Done
    /\ builds = 1
    /\ \A i \in DOMAIN loops : Len(loops[i]) > 0
    /\ Len(json["claim"].claim_lines) > 0

----------------------------------------------------------------------------
\* C19: after the caller has modified the mapping the first to_json call
\* returned, in any of the ways above, a later to_json call on the same
\* Remittance, not built again, returns the mapping the first call returned.
LaterToJsonReturnsConstructedRecord ==
    (Done /\ modified # "no" /\ calls >= 1 /\ builds = 1) =>
      json = first_json

----------------------------------------------------------------------------
(* Two Remittance objects built by two workers over ranges of one shared   *)
(* segment sequence, the steps of their build() and to_json interleaved.   *)

\* The attributes of a Remittance after __init__ has stored its ranges.
Remittance(h, pr, pe, c, s, n) ==
    [trx_header_loop |-> h, payer_loop |-> pr, payee_loop |-> pe,
     clm_loop |-> c, trx_summary_loop |-> s, header_number_loop |-> n,
     trx_header_info |-> Unset, payer_info |-> Unset, payee_info |-> Unset,
     clm_info |-> Unset, plb_info |-> Unset, header_info |-> Unset,
     pc |-> "populate_trx_loop", json |-> Unset]

\* plb_info is one list shared by all Remittance objects: populate_plb_loop
\* extends what the other object has put there.
build_step_shared(self) ==
    CASE self.pc = "populate_trx_loop" ->
           [self EXCEPT !.trx_header_info =
                            populate_trx_loop(self.trx_header_loop),
                        !.pc = "populate_payer_loop"]
      [] self.pc = "populate_payer_loop" ->
           [self EXCEPT !.payer_info = populate_payer_loop(self.payer_loop),
                        !.pc = "populate_payee_loop"]
      [] self.pc = "populate_payee_loop" ->
           [self EXCEPT !.payee_info = populate_payee_loop(self.payee_loop),
                        !.pc = "populate_claim_loop"]
      [] self.pc = "populate_claim_loop" ->
           IF populate_claim_loop_raises(self.clm_loop)
           THEN [self EXCEPT !.pc = "raised"]
           ELSE [self EXCEPT !.clm_info = populate_claim_loop(self.clm_loop),
                             !.pc = "populate_plb_loop"]
      [] self.pc = "populate_plb_loop" ->
           [self EXCEPT !.plb_info =
                            (IF pc \in {"populate_header_loop", "built",
                                        "done"}
                             THEN plb_info ELSE <<>>)
                            \o populate_plb_loop(self.trx_summary_loop),
                        !.pc = "populate_header_loop"]
      [] self.pc = "populate_header_loop" ->
           [self EXCEPT !.header_info =
                            populate_header_loop(self.header_number_loop),
                        !.pc = "built"]
      [] self.pc = "built" ->
           [self EXCEPT !.json =
                            to_json_record(self.trx_header_info,
                                           self.payer_info, self.payee_info,
                                           self.clm_info, self.plb_info,
                                           self.header_info),
                        !.pc = "done"]

\* The next step of build() and to_json on the object self: every
\* populate_* method reads a range of self and assigns an attribute of
\* self.
build_step(self) ==
    CASE self.pc = "populate_trx_loop" ->
           [self EXCEPT !.trx_header_info =
                            populate_trx_loop(self.trx_header_loop),
                        !.pc = "populate_payer_loop"]
      [] self.pc = "populate_payer_loop" ->
           [self EXCEPT !.payer_info = populate_payer_loop(self.payer_loop),
                        !.pc = "populate_payee_loop"]
      [] self.pc = "populate_payee_loop" ->
           [self EXCEPT !.payee_info = populate_payee_loop(self.payee_loop),
                        !.pc = "populate_claim_loop"]
      [] self.pc = "populate_claim_loop" ->
           IF populate_claim_loop_raises(self.clm_loop)
           THEN [self EXCEPT !.pc = "raised"]
           ELSE [self EXCEPT !.clm_info = populate_claim_loop(self.clm_loop),
                             !.pc = "populate_plb_loop"]
      [] self.pc = "populate_plb_loop" ->
           [self EXCEPT !.plb_info =
                            populate_plb_loop(self.trx_summary_loop),
                        !.pc = "populate_header_loop"]
      [] self.pc = "populate_header_loop" ->
           [self EXCEPT !.header_info =
                            populate_header_loop(self.header_number_loop),
                        !.pc = "built"]
      [] self.pc = "built" ->
           [self EXCEPT !.json =
                            to_json_record(self.trx_header_info,
                                           self.payer_info, self.payee_info,
                                           self.clm_info, self.plb_info,
                                           self.header_info),
                        !.pc = "done"]

MaxShared == 2

SharedShapes ==
    {Shape("CLP", 15, 1), Shape("SVC", 8, 1), Shape("PLB", 7, 2),
     Shape("N1", 6, 1)}

SharedSequences ==
    {MkLoop("shared", s) : s \in SeqsUpTo(SharedShapes, MaxShared)}

\* Both objects read the whole shared sequence as their payer and payee
\* range; the sequence is cut in two, and each object has one part as its
\* claim range and the other as its transaction-summary range.
InitParallel ==
    \E shared \in SharedSequences :
      \E cut \in 0..Len(shared) :
        LET head == PySlice(shared, 0, cut)
            rest == PySlice(shared, cut, Len(shared))
        IN  /\ trx_header_loop = <<>>
            /\ payer_loop = shared
            /\ payee_loop = shared
            /\ clm_loop = head
            /\ trx_summary_loop = rest
            /\ header_number_loop = <<>>
            /\ trx_header_info = Unset
            /\ payer_info = Unset
            /\ payee_info = Unset
            /\ clm_info = Unset
            /\ plb_info = Unset
            /\ header_info = Unset
            /\ pc = "populate_trx_loop"
            /\ json = Unset
            /\ other = Remittance(<<>>, shared, shared, rest, head, <<>>)
            /\ NoTransaction
            /\ NewLife
            /\ NoFraming

\* A step of the other worker.
other_step ==
    /\ other.pc \notin {"none", "raised", "done"}
    /\ other' = build_step(other)
    /\ UNCHANGED <<loops, infos, pc, json, txn, life, framing>>

NextParallel == Next \/ other_step

SpecParallel == InitParallel /\ [][NextParallel]_vars

\* What to_json returns for a Remittance constructed alone over six ranges.
Alone(h, pr, pe, c, s, n) ==
    to_json_record(populate_trx_loop(h), populate_payer_loop(pr),
                   populate_payee_loop(pe), populate_claim_loop(c),
                   populate_plb_loop(s), populate_header_loop(n))

\* C20: however the populate_* steps and the to_json calls of two
\* Remittance objects over ranges of one shared segment sequence are
\* interleaved, the mapping each to_json returns is the one the object
\* yields when it is constructed alone.
InterleavedEqualsAlone ==
    /\ Done =>
         json = Alone(trx_header_loop, payer_loop, payee_loop, clm_loop,
                      trx_summary_loop, header_number_loop)
    /\ other.pc = "done" =>
         other.json = Alone(other.trx_header_loop, other.payer_loop,
                            other.payee_loop, other.clm_loop,
                            other.trx_summary_loop,
                            other.header_number_loop)

\* Both objects are done, each with a provider adjustment and a claim line
\* of its own part of the shared sequence.
InterleavedEqualsAloneWitness ==
    /\ Done
    /\ other.pc = "done"
    /\ Len(json["provider_adjustments"]) = 1
    /\ Len(other.json["claim"].claim_lines) = 1
    /\ json["payer"] = other.json["payer"]
    /\ json["claim"] # other.json["claim"]

----------------------------------------------------------------------------
(* Claim ranges of service lines: an SVC followed by SVC, AMT, LQ, CAS and *)
(* REF segments.                                                           *)

MaxLineTail == 4

LineShapes ==
    {Shape("SVC", 8, 1), Shape("AMT", 4, 1), Shape("LQ", 3, 1),
     Shape("CAS", 5, 1), Shape("REF", 4, 1)}

LineLoops ==
    {MkLoop("claim", <<Shape("SVC", 8, 1)>> \o s) :
        s \in SeqsUpTo(LineShapes, MaxLineTail)}

\* The claim range is drawn from LineLoops; the other five ranges are
\* empty.
InitLines ==
    \E c \in LineLoops : Stored(<<>>, <<>>, <<>>, c, <<>>, <<>>)

SpecLines == InitLines /\ [][Next]_vars

\* The texts of element 1 of the AMT, LQ, CAS and REF segments a claim line
\* record was built from.
LineTexts(line) ==
    {line.claim_line_supplemental_amount[k]["amt_qualifier_cd"] :
        k \in DOMAIN line.claim_line_supplemental_amount}
    \cup {line.claim_line_remarks[k]["qualifier_cd"] :
            k \in DOMAIN line.claim_line_remarks}
    \cup {line.claim_line_adjustments[k]["adjustment_grp_cd"] :
            k \in DOMAIN line.claim_line_adjustments}
    \cup {line.claim_line_related_identifications[k]["id_code_qualifier"] :
            k \in DOMAIN line.claim_line_related_identifications}

\* The positions of the claim range that populate_claim_line slices for the
\* SVC at position i.
LineRange(loop, i) == {p \in i..(svc_end_idx(loop, i) - 1) : p < Len(loop)}

\* C21: the ranges of two different claim lines of a claim share no
\* position of the claim range, and no AMT, LQ, CAS or REF segment of the
\* claim range is in the records of two claim lines.
ClaimLinesDoNotOverlap ==
    Done =>
      LET svcs == Occurrences(clm_loop, "SVC")
          lines == json["claim"].claim_lines
      IN  \A n \in DOMAIN lines : \A k \in DOMAIN lines :
            n # k =>
              /\ LineRange(clm_loop, svcs[n]) \cap LineRange(clm_loop, svcs[k])
                   = {}
              /\ LineTexts(lines[n]) \cap LineTexts(lines[k]) = {}
              /\ \A p \in 0..(Len(clm_loop) - 1) :
                   TextAt(clm_loop[p + 1], 1) \in LineTexts(lines[n]) =>
                     /\ p >= svcs[n]
                     /\ n < Len(svcs) => p < svcs[n + 1]

\* Two claim lines, each built from a segment of its own.
ClaimLinesDoNotOverlapWitness ==
    /\ Done
    /\ Len(json["claim"].claim_lines) = 2
    /\ LineTexts(json["claim"].claim_lines[1]) # {}
    /\ LineTexts(json["claim"].claim_lines[2]) # {}

----------------------------------------------------------------------------
\* C22: in every provider_adjustments record and for every group g in 1..6
\* the fields provider_adjustment_reason_cd_g, provider_adjustment_id_g and
\* provider_adjustment_amt_g are all None or all present; no length of a
\* PLB segment gives a group that is partly None.
PlbGroupsAllOrNone ==
    Done =>
      \A k \in DOMAIN json["provider_adjustments"] :
        \A g \in 1..6 :
          LET group == PlbGroup(json["provider_adjustments"][k], g)
          IN  \/ \A f \in 1..3 : group[f] = None
              \/ \A f \in 1..3 : group[f] # None

----------------------------------------------------------------------------
\* C23: for the claim line of every SVC, claim_line_supplemental_quantity
\* holds exactly one record per QTY segment of the line's range and
\* claim_line_supplemental_amount exactly one record per AMT segment of
\* that range, in document order; no quantity record is read from an AMT
\* segment.  Stated for the claim ranges that end with an SVC, where every
\* AMT and QTY of a line lies before the last segment of the range.
LineQuantitiesFromQty ==
    (Done /\ clm_loop # <<>> /\ clm_loop[Len(clm_loop)][1][1] = "SVC") =>
      LET svcs == Occurrences(clm_loop, "SVC")
          lines == json["claim"].claim_lines
      IN  \A k \in DOMAIN lines :
            LET i == svcs[k]
                j == LoopEnd(clm_loop, "SVC", i)
                quantity == lines[k].claim_line_supplemental_quantity
                amount == lines[k].claim_line_supplemental_amount
            IN  /\ FieldOf(quantity, "quantity_qualifier")
                     = TextsIn(clm_loop, "QTY", 1, i, j)
                /\ FieldOf(amount, "amt_qualifier_cd")
                     = TextsIn(clm_loop, "AMT", 1, i, j)
                /\ \A q \in DOMAIN quantity :
                     \A p \in DOMAIN clm_loop :
                       clm_loop[p][1][1] = "AMT" =>
                         quantity[q]["quantity_qualifier"]
                           # TextAt(clm_loop[p], 1)

----------------------------------------------------------------------------
\* C24: when the claim range has a second CLP, at position p > 0,
\* claim_names has a record for exactly the NM1 segments at the positions
\* 0..p-1, the one right before the second CLP included, and none at or
\* after p; with no second CLP it has a record for every NM1 of the range.
ClaimNamesBeforeSecondClp ==
    Done =>
      LET later == OccurrencesIn(clm_loop, "CLP", 1, Len(clm_loop))
          p == IF later = <<>> THEN Len(clm_loop) ELSE later[1]
      IN  NameCodesOf(json["claim"].claim_names)
            = NameCodesIn(clm_loop, 0, p)

----------------------------------------------------------------------------
\* C25: claim_dates has one record for every DTM of the claim range, in
\* document order, the DTM segments at or after the first SVC included;
\* the first DTM at or after an SVC is both in claim_dates and in the
\* claim_line_dates of the line of that SVC.
ClaimDatesFromWholeRange ==
    Done =>
      LET dates == json["claim"].claim_dates
          lines == json["claim"].claim_lines
          svcs == Occurrences(clm_loop, "SVC")
          n == Len(clm_loop)
      IN  /\ FieldOf(dates, "date_code") = TextsIn(clm_loop, "DTM", 1, 0, n)
          /\ FieldOf(dates, "date") = TextsIn(clm_loop, "DTM", 2, 0, n)
          /\ FieldOf(dates, "time") = TextsIn(clm_loop, "DTM", 3, 0, n)
          /\ \A k \in DOMAIN lines :
               LET after == OccurrencesIn(clm_loop, "DTM", svcs[k], n)
               IN  after # <<>> =>
                     /\ lines[k].claim_line_dates["date_code"]
                          = TextAt(clm_loop[after[1] + 1], 1)
                     /\ \E d \in DOMAIN dates :
                          dates[d] = lines[k].claim_line_dates

\* A DTM before the SVC and one after it: both are in claim_dates, the
\* second is the date of the line as well.
ClaimDatesFromWholeRangeWitness ==
    /\ Done
    /\ Occurrences(clm_loop, "SVC") = <<1>>
    /\ Occurrences(clm_loop, "DTM") = <<0, 2>>
    /\ Len(json["claim"].claim_dates) = 2
    /\ json["claim"].claim_lines[1].claim_line_dates
         = json["claim"].claim_dates[2]
    /\ json["claim"].claim_dates[2]["date"] = "claim2e2s0"

----------------------------------------------------------------------------
(* Two Remittance objects that are given the same range for one role and   *)
(* different ranges for the other five.                                    *)

\* The range of role focus is the same for both objects, fully populated or
\* empty; each of the other five ranges is fully populated for one object
\* and empty for the other.
InitPair ==
    \E focus \in Roles :
      \E full \in [Roles -> BOOLEAN] :
        LET L(r) == IF full[r] THEN FullLoop(r) ELSE <<>>
            M(r) == IF r = focus THEN L(r)
                    ELSE IF full[r] THEN <<>> ELSE FullLoop(r)
        IN  /\ trx_header_loop = L("header")
            /\ payer_loop = L("payer")
            /\ payee_loop = L("payee")
            /\ clm_loop = L("claim")
            /\ trx_summary_loop = L("summary")
            /\ header_number_loop = L("number")
            /\ trx_header_info = Unset
            /\ payer_info = Unset
            /\ payee_info = Unset
            /\ clm_info = Unset
            /\ plb_info = Unset
            /\ header_info = Unset
            /\ pc = "populate_trx_loop"
            /\ json = Unset
            /\ other = Remittance(M("header"), M("payer"), M("payee"),
                                  M("claim"), M("summary"), M("number"))
            /\ NoTransaction
            /\ NewLife
            /\ NoFraming

SpecPair == InitPair /\ [][NextParallel]_vars

BothDone == Done /\ other.pc = "done"

\* C26: when two Remittance objects were given the same range for one role,
\* whatever their other five ranges are, the sub-record read from that
\* range is the same in both to_json results: payment for the
\* transaction-header range, payer for the payer range, payee for the payee
\* range, claim for the claim range, provider_adjustments for the
\* transaction-summary range and header_info for the header-number range.
SubRecordDependsOnOwnRange ==
    BothDone =>
      /\ trx_header_loop = other.trx_header_loop =>
           json["payment"] = other.json["payment"]
      /\ payer_loop = other.payer_loop =>
           json["payer"] = other.json["payer"]
      /\ payee_loop = other.payee_loop =>
           json["payee"] = other.json["payee"]
      /\ clm_loop = other.clm_loop =>
           json["claim"] = other.json["claim"]
      /\ trx_summary_loop = other.trx_summary_loop =>
           json["provider_adjustments"] = other.json["provider_adjustments"]
      /\ header_number_loop = other.header_number_loop =>
           json["header_info"] = other.json["header_info"]

\* The two objects share a populated transaction-summary range; the first
\* has populated payee and claim ranges (each with a PLB of its own) and
\* the second has empty ones.
SubRecordDependsOnOwnRangeWitness ==
    /\ BothDone
    /\ trx_summary_loop = other.trx_summary_loop
    /\ trx_summary_loop # <<>>
    /\ clm_loop # <<>>
    /\ payee_loop # <<>>
    /\ other.clm_loop = <<>>
    /\ other.payee_loop = <<>>
    /\ json["claim"] # other.json["claim"]
    /\ Len(json["provider_adjustments"]) = 2
    /\ json["provider_adjustments"] = other.json["provider_adjustments"]

----------------------------------------------------------------------------
\* C27: __setstate__ applied to the result of __getstate__ gives an object
\* whose data, format_cls, transaction_type and three ST header fields are
\* those of the object the state was taken from; applied to a state
\* without the three ST header keys it succeeds, restores data, format_cls
\* and transaction_type, and leaves the three ST header fields None.
StateRoundTrips ==
    /\ tx_pc \in {"pickled", "pickled_legacy"} => ~ __setstate___raises(tx_state)
    /\ tx_pc = "restored" =>
         /\ DOMAIN restored = DOMAIN transaction
         /\ \A a \in DOMAIN transaction : restored[a] = transaction[a]
    /\ tx_pc = "restored_legacy" =>
         /\ restored.data = transaction.data
         /\ restored.format_cls = transaction.format_cls
         /\ restored.transaction_type = transaction.transaction_type
         /\ restored.transaction_set_identifier_code = None
         /\ restored.transaction_set_control_number = None
         /\ restored.implementation_convention_reference = None

\* A Transaction with the fields of an ST has gone through __getstate__
\* and __setstate__.
StateRoundTripsWitness ==
    /\ tx_pc = "restored"
    /\ transaction.transaction_type = "835"
    /\ transaction.implementation_convention_reference = "tx0e3s0"
    /\ restored.implementation_convention_reference = "tx0e3s0"
    /\ Len(restored.data) = 2

====
